---- MODULE Spec2Model ----
(***************************************************************************)
(* Model of the atomic batch-rename transaction engine:                    *)
(* RenameTransactionManager (rename_transaction.py) executing a            *)
(* RenameTransaction (models.py) against a filesystem, started on the      *)
(* BackgroundWorker (threading_worker.py) by the GUI (main.py).            *)
(*                                                                         *)
(* The filesystem is one directory (the builder makes every target a       *)
(* sibling of its source).  A path is a file name; fs maps every path to   *)
(* the entry stored there.  A regular file carries as content the name it  *)
(* had before execution, so the content identifies the file wherever it is *)
(* moved.  The environment can make a rename call raise OSError (locked    *)
(* file, permission, device error): such a call leaves the filesystem      *)
(* unchanged.  unlink of a staging file is assumed not to fail.            *)
(***************************************************************************)
EXTENDS Integers, Sequences, FiniteSets, TLC

\* ------------------------------------------------------------------ bounds
\* largest number of operations in a transaction
MaxOps == 2
\* largest number of rename calls the environment makes fail in one execution
MaxFailures == 2
\* largest number of operations given to the conflict detector
MaxDetectOps == 3
\* entries of a metadata list given to the number analyses
MaxMeta == 4
\* largest extracted number given to the number analyses
MaxNumber == 5
\* entries of a metadata list given to the sorter
MaxSort == 3
\* entries of the metadata list given to the builder
MaxBuild == 2
\* calls of the builder and of the controller's build_transaction
MaxCalls == 2
\* threads a BackgroundWorker is asked to start
MaxThreads == 3
\* operations of a batch whose rollback is followed operation by operation
RollbackOps == 3
\* executions of one transaction
MaxExecutions == 2

\* -------------------------------------------------------------- variables
VARIABLES
    transaction,      \* the RenameTransaction: sequence of RenameOperation
    fs,               \* the directory: path -> entry
    dir_writable,     \* os.access(target_dir, os.W_OK)
    platform,         \* the filesystem and path flavour the program runs on
    metadata_list,    \* the EpisodeMetadata list given to the sorter / detector
    called,           \* the pure function that has been applied, or "none"
    out,              \* what that function returned
    format_string,    \* the template given to the builder and the controller
    current_transaction, \* ApplicationController.current_transaction, if any
    builder_calls,    \* history: templates the TransactionBuilder was invoked with
    threads,          \* the threads BackgroundWorker.start has created
    start_result,     \* how the last call of BackgroundWorker.start ended
    current_phase,    \* RenameTransactionManager.current_phase
    pc,               \* position of the task inside execute_transaction
    idx,              \* index of the loop the task is in
    result,           \* outcome of execute_transaction: none, true, false, raised
    status,           \* BackgroundWorker.status
    cancel_flag,      \* BackgroundWorker.cancel_flag
    thread_alive,     \* BackgroundWorker.thread.is_alive()
    cancel_btn,       \* state of the GUI's cancel button
    fs0,              \* history: the filesystem before execution
    err_phase,        \* history: phase whose exception started the rollback
    err_idx,          \* history: index of the operation whose rename raised
    rename_errors,    \* history: number of _safe_rename calls that raised
    rollback_errors,  \* history: number of those raised inside rollback
    cancel_phase,     \* history: position of the task when cancel() was called
    cancel_idx,       \* history: loop index of the task when cancel() was called
    phase_trace,      \* history: the values assigned to current_phase, in order
    progress_callback, \* the callback the manager is constructed with
    dry_run_mode,     \* AppConfig.dry_run_mode
    reports,          \* history: the calls of the progress callback, in order
    logger_calls,     \* history: the calls of the LoggingService, in order
    undo              \* the undo script, how far it has been run, what it did

vars == <<transaction, fs, dir_writable, platform, metadata_list, called, out,
          format_string, current_transaction, builder_calls, threads, start_result,
          current_phase, pc, idx, result,
          status, cancel_flag, thread_alive, cancel_btn,
          fs0, err_phase, err_idx, rename_errors, rollback_errors, cancel_phase,
          cancel_idx, phase_trace, progress_callback, dry_run_mode, reports,
          logger_calls, undo>>

\* how the execution was asked for, and the undo script made afterwards:
\* never changed by a step of an execution
config_vars == <<progress_callback, dry_run_mode, undo>>

\* what the progress callback and the logger have received
sink_vars == <<reports, logger_calls>>

\* what no step of an execution changes: the environment and the inputs and
\* outputs of the pure analyses
env_vars == <<dir_writable, platform, metadata_list, called, out,
              format_string, current_transaction, builder_calls, threads,
              start_result, config_vars>>

\* the inputs of the pure analyses and of the builder
input_vars == <<metadata_list, format_string, current_transaction, builder_calls,
                threads, start_result>>

\* the template "": it parses into no item
EmptyTemplate == [parses |-> TRUE, items |-> <<>>]

\* the controller after construction: no transaction built, and no template
\* given yet
NoBuild ==
    /\ format_string = EmptyTemplate
    /\ current_transaction = <<>>
    /\ builder_calls = <<>>

\* BackgroundWorker.__init__: no thread yet
NoThreads ==
    /\ threads = <<>>
    /\ start_result = "none"

\* a manager constructed without a progress callback
\* (RenameTransactionManager()), dry run off (the default of AppConfig)
PlainRun ==
    /\ progress_callback = "none"
    /\ dry_run_mode = FALSE

worker_vars == <<status, cancel_flag, thread_alive, cancel_btn>>
hist_vars == <<fs0, err_phase, err_idx, rename_errors, rollback_errors, cancel_phase,
               cancel_idx, phase_trace, sink_vars>>

\* ------------------------------------------------------------- filesystem
\* file names in the directory ("A" and "a" differ only in case)
Names == {"A", "a", "B"}

\* staging file name of the operation with staging_id i (uuid4: unique)
StagingNames == <<".rename_staging_1", ".rename_staging_2", ".rename_staging_3",
                  ".rename_staging_4", ".rename_staging_5", ".rename_staging_6">>

Paths ==
    Names \cup {StagingNames[i] :
                   i \in 1..(IF MaxOps > RollbackOps THEN MaxOps ELSE RollbackOps)}

\* staging_path is None
NoPath == ""

\* nothing at this path
NoFile == [kind |-> "none", content |-> "", name |-> ""]

\* str.lower() on a file name
Lower(p) == IF p = "A" THEN "a" ELSE IF p = "B" THEN "b" ELSE p

\* where the program can run: POSIX paths on a case-sensitive filesystem,
\* POSIX paths on a case-insensitive one, Windows paths (case-insensitive)
Platforms == {"posix", "posix_ci", "windows"}

\* the directory slot a path names: on a case-insensitive filesystem names
\* that differ only in case name the same slot; the entry keeps the name it
\* was created under
Key(p) ==
    IF platform = "posix" THEN p
    ELSE IF Lower(p) \in Paths THEN Lower(p) ELSE p

\* Path.__eq__ (also of resolved paths): exact on POSIX, case-insensitive on
\* Windows
SamePath(p, q) == IF platform = "windows" THEN Lower(p) = Lower(q) ELSE p = q

\* Path.exists()
Exists(f, p) == f[Key(p)].kind # "none"

\* Path.is_file()
IsFile(f, p) == f[Key(p)].kind \in {"file", "unreadable"}

\* os.access(p, os.R_OK)
Readable(f, p) == f[Key(p)].kind \in {"file", "dir"}

\* Path.rename(target) when it succeeds: the entry moves under the new name,
\* replacing the target
Move(f, s, t) ==
    IF Key(s) = Key(t)
    THEN [f EXCEPT ![Key(t)].name = t]
    ELSE [f EXCEPT ![Key(t)] = [f[Key(s)] EXCEPT !.name = t], ![Key(s)] = NoFile]

\* Path.unlink()
Unlink(f, p) == [f EXCEPT ![Key(p)] = NoFile]

\* --------------------------------------------------------------- models.py
\* a staging name that does not depend on the staging_id
get_staging_filename_shared(op) == StagingNames[1]

\* no staging name at all: the file stays under its original name
get_staging_filename_is_source(op) == op.original_path

\* RenameOperation.get_staging_filename
get_staging_filename(op) == StagingNames[op.staging_id]

\* RenameOperation.is_case_only_change
is_case_only_change(op) ==
    /\ Lower(op.original_path) = Lower(op.target_path)
    /\ op.original_path # op.target_path

\* RenameTransaction.all_completed
all_completed(tx) == \A i \in 1..Len(tx) : tx[i].status = "COMPLETED"

\* RenameTransaction.any_failed
any_failed(tx) == \E i \in 1..Len(tx) : tx[i].status = "FAILED"

\* ------------------------------------------------- rename_transaction.py
\* _safe_rename that copies to the target and leaves the source in place
safe_rename_keeps_source(f, source, target, envfail) ==
    IF source = target
    THEN [err |-> "", fs |-> f]
    ELSE IF Exists(f, target)
    THEN [err |-> "FileExistsError", fs |-> f]
    ELSE IF ~Exists(f, source)
    THEN [err |-> "FileNotFoundError", fs |-> f]
    ELSE IF envfail
    THEN [err |-> "OSError", fs |-> f]
    ELSE [err |-> "", fs |-> [f EXCEPT ![Key(target)] =
                                    [f[Key(source)] EXCEPT !.name = target]]]

\* _safe_rename without the target.exists() check: rename replaces the target
safe_rename_overwrites(f, source, target, envfail) ==
    IF source = target
    THEN [err |-> "", fs |-> f]
    ELSE IF ~Exists(f, source)
    THEN [err |-> "FileNotFoundError", fs |-> f]
    ELSE IF envfail
    THEN [err |-> "OSError", fs |-> f]
    ELSE [err |-> "", fs |-> Move(f, source, target)]

\* _safe_rename that returns without renaming anything
safe_rename_does_nothing(f, source, target, envfail) ==
    IF envfail THEN [err |-> "OSError", fs |-> f] ELSE [err |-> "", fs |-> f]

\* RenameTransactionManager._safe_rename(source, target).  envfail: the
\* environment makes the rename (and the copy fallback) raise OSError.
\* Result: err = "" and the new filesystem, or the exception raised and the
\* filesystem unchanged.
_safe_rename(f, source, target, envfail) ==
    IF SamePath(source, target)
    THEN [err |-> "", fs |-> f]
    ELSE IF Lower(source) = Lower(target) /\ source # target
    THEN (IF ~Exists(f, source) THEN [err |-> "FileNotFoundError", fs |-> f]
          ELSE IF envfail THEN [err |-> "OSError", fs |-> f]
          ELSE [err |-> "", fs |-> Move(f, source, target)])
    ELSE IF Exists(f, target)
    THEN [err |-> "FileExistsError", fs |-> f]
    ELSE IF ~Exists(f, source)
    THEN [err |-> "FileNotFoundError", fs |-> f]
    ELSE IF envfail
    THEN [err |-> "OSError", fs |-> f]
    ELSE [err |-> "", fs |-> Move(f, source, target)]

\* _preflight_validation without the checks on the source file
PreflightCheck_target_dir_only(f, writable, op) == writable

\* the checks of _preflight_validation on one operation
PreflightCheck(f, writable, op) ==
    /\ Exists(f, op.original_path)
    /\ IsFile(f, op.original_path)
    /\ Readable(f, op.original_path)
    /\ writable

\* index of the first operation on which _preflight_validation raises, or 0
FirstInvalid(f, writable, tx) ==
    IF \A i \in 1..Len(tx) : PreflightCheck(f, writable, tx[i])
    THEN 0
    ELSE CHOOSE i \in 1..Len(tx) :
            /\ ~PreflightCheck(f, writable, tx[i])
            /\ \A j \in 1..(i - 1) : PreflightCheck(f, writable, tx[j])

\* the condition _verify_phase_one accepts
VerifyPhaseOne(f, tx) ==
    \A i \in 1..Len(tx) :
        /\ tx[i].status = "STAGED"
        /\ Exists(f, tx[i].staging_path)

\* a restore guard that tests the wrong status
NeedsRestore_wrong_status(f, op) ==
    /\ op.status = "COMPLETED"
    /\ op.staging_path # NoPath
    /\ Exists(f, op.staging_path)

\* a restore of whatever is at the staging path, whatever the status
NeedsRestore_any_status(f, op) ==
    /\ op.staging_path # NoPath
    /\ Exists(f, op.staging_path)

\* the guard of the restore in the second loop of _rollback_transaction
NeedsRestore(f, op) ==
    /\ op.status = "STAGED"
    /\ op.staging_path # NoPath
    /\ Exists(f, op.staging_path)

\* a rollback without the staging-file cleanup
CleanupStaging_skipped(f, op) == f

\* a cleanup that deletes the file at the operation's original path
CleanupStaging_unlinks_source(f, op) == Unlink(f, op.original_path)

\* the staging-file cleanup at the end of each iteration of the second
\* loop of _rollback_transaction
CleanupStaging(f, op) ==
    IF op.staging_path # NoPath /\ Exists(f, op.staging_path)
    THEN Unlink(f, op.staging_path)
    ELSE f

\* exceptions that escape _rollback_transaction: each rename and each unlink
\* is wrapped in try/except that prints or passes
RollbackRaises(errors) == FALSE

\* the first loop of _rollback_transaction from operation i on: every
\* COMPLETED operation whose target exists is renamed target -> staging.
\* F: the operations whose rename the environment makes fail.
RECURSIVE ReversePhaseTwo(_, _, _)
ReversePhaseTwo(st, i, F) ==
    IF i > Len(st.tx) THEN st
    ELSE LET op == st.tx[i]
             r  == _safe_rename(st.fs, op.target_path, op.staging_path, i \in F)
         IN  IF op.status = "COMPLETED" /\ Exists(st.fs, op.target_path)
             THEN IF r.err = ""
                  THEN ReversePhaseTwo(
                          [tx |-> [st.tx EXCEPT ![i].status = "STAGED"],
                           fs |-> r.fs, errors |-> st.errors], i + 1, F)
                  ELSE ReversePhaseTwo(
                          [tx |-> st.tx, fs |-> st.fs,
                           errors |-> st.errors + 1], i + 1, F)
             ELSE ReversePhaseTwo(st, i + 1, F)

\* a freshly built operation (TransactionBuilder.build_transaction)
RenameOperation(i, src, tgt) ==
    [original_path |-> src, target_path |-> tgt, staging_id |-> i,
     staging_path |-> NoPath, status |-> "PENDING", error_message |-> ""]

\* kinds of entry a name can hold before execution: nothing, a regular file,
\* a directory, a regular file without read permission
Kinds == {"none", "file", "dir", "unreadable"}

\* the source paths a built transaction can have: one operation per scanned
\* file, so they name pairwise distinct files
SourceLists(n) ==
    {srcs \in [1..n -> Names] :
        \A i, j \in 1..n : i # j => Key(srcs[i]) # Key(srcs[j])}

\* the directories the program can find: every slot is empty or holds an
\* entry of some kind under one of the names of that slot
Directories ==
    {[p \in Paths |->
        IF p \in Names /\ Key(p) = p /\ k[p] # "none"
        THEN [kind |-> k[p], content |-> nm[p], name |-> nm[p]]
        ELSE NoFile] :
     k \in [Names -> Kinds],
     nm \in {n \in [Names -> Names] : \A p \in Names : Key(n[p]) = Key(p)}}

\* no undo script has been made
NoUndo == [script |-> <<>>, pos |-> 0, overwrote |-> FALSE]

\* the manager and the worker after construction, before any execution
Constructed ==
    /\ fs0 = fs
    /\ current_phase = "preflight"
    /\ pc = "idle"
    /\ idx = 0
    /\ result = "none"
    /\ status = "idle"
    /\ cancel_flag = FALSE
    /\ thread_alive = FALSE
    /\ cancel_btn = "disabled"
    /\ err_phase = "none"
    /\ err_idx = 0
    /\ rename_errors = 0
    /\ rollback_errors = 0
    /\ cancel_phase = "none"
    /\ cancel_idx = 0
    /\ phase_trace = <<>>
    /\ reports = <<>>
    /\ logger_calls = <<>>
    /\ undo = NoUndo

\* a built transaction of at most n operations and a directory, on one of
\* the given platforms
InitOn(platforms, n_max) ==
    /\ platform \in platforms
    /\ \E n \in 0..n_max :
         \E srcs \in SourceLists(n), tgts \in [1..n -> Names] :
            transaction = [i \in 1..n |-> RenameOperation(i, srcs[i], tgts[i])]
    /\ fs \in Directories
    /\ dir_writable \in BOOLEAN
    /\ Constructed

Init ==
    /\ InitOn({"posix"}, MaxOps)
    /\ metadata_list = <<>>
    /\ called = "none"
    /\ out = <<>>
    /\ NoBuild
    /\ NoThreads
    /\ PlainRun

\* ------------------------------------------------------------- the worker
\* BackgroundWorker.is_running
is_running == status = "running" /\ thread_alive

\* a progress report: the arguments of one call of the callback
Report(current, total, message) ==
    [current |-> current, total |-> total, message |-> message]

\* the callbacks a caller can supply: none, one that returns, one that raises
Callbacks == {"none", "sink", "raising"}

\* the calls of the LoggingService made by ApplicationController
LogStart == [call |-> "log_transaction_start", success |-> FALSE]
LogComplete(success) == [call |-> "log_transaction_complete", success |-> success]

\* ApplicationController.execute_transaction: the test of config.dry_run_mode
DryRun_ignored(mode) == FALSE
DryRun(mode) == mode

\* the progress reports of a dry run: none without a callback, else one per
\* i in 0..total, up to the first that raises
DryRunReports(cb, total) ==
    IF cb = "none" THEN <<>>
    ELSE IF cb = "raising" THEN <<Report(0, total, "Dry run")>>
    ELSE [k \in 1..(total + 1) |-> Report(k - 1, total, "Dry run")]

\* PlaylistRenamerGUI._execute_rename: enable the cancel button and start the
\* rename task on the worker (BackgroundWorker.start); the task begins
\* ApplicationController.execute_transaction: a dry run returns at once,
\* otherwise the start is logged and the manager is about to be called
Start ==
    /\ pc = "idle"
    /\ ~is_running
    /\ status' = "running"
    /\ cancel_flag' = FALSE
    /\ thread_alive' = TRUE
    /\ cancel_btn' = "normal"
    /\ IF DryRun(dry_run_mode)
       THEN /\ pc' = "returned"
            /\ reports' = reports \o DryRunReports(progress_callback, Len(transaction))
            /\ result' = IF progress_callback = "raising" THEN "raised" ELSE "true"
            /\ UNCHANGED logger_calls
       ELSE /\ pc' = "preflight"
            /\ logger_calls' = Append(logger_calls, LogStart)
            /\ UNCHANGED <<result, reports>>
    /\ UNCHANGED <<transaction, fs, env_vars, current_phase, idx>>
    /\ UNCHANGED <<fs0, err_phase, err_idx, rename_errors, rollback_errors,
                   cancel_phase, cancel_idx, phase_trace>>

\* PlaylistRenamerGUI._cancel_operation: BackgroundWorker.cancel
Cancel ==
    /\ cancel_btn = "normal"
    /\ cancel_flag' = TRUE
    /\ status' = "cancelled"
    /\ cancel_btn' = "disabled"
    /\ cancel_phase' = pc
    /\ cancel_idx' = idx
    /\ UNCHANGED <<transaction, fs, env_vars, current_phase, pc, idx, result,
                   thread_alive, fs0, err_phase, err_idx, rename_errors,
                   rollback_errors, phase_trace, sink_vars>>

\* worker_wrapper after the target returned or raised
TaskComplete ==
    /\ pc = "returned"
    /\ status' = IF result = "raised" THEN "failed" ELSE "completed"
    /\ thread_alive' = FALSE
    /\ pc' = "done"
    /\ UNCHANGED <<transaction, fs, env_vars, current_phase, idx, result,
                   cancel_flag, cancel_btn>>
    /\ UNCHANGED hist_vars

\* PlaylistRenamerGUI._update_from_worker once the result is in the queue
UpdateFromWorker ==
    /\ pc = "done"
    /\ ~is_running /\ status # "idle"
    /\ status' = "idle"
    /\ cancel_btn' = "disabled"
    /\ pc' = "reported"
    /\ UNCHANGED <<transaction, fs, env_vars, current_phase, idx, result,
                   cancel_flag, thread_alive>>
    /\ UNCHANGED hist_vars

\* ----------------------------------------------------- execute_transaction
\* the last element of a non-empty sequence
Last(q) == q[Len(q)]

\* _report_progress that calls the callback without testing that there is one
report_progress_unguarded(cb) == cb # "sink"

\* _report_progress(current, total, message) raises: the callback is called
\* only if there is one, and its exception, if any, propagates
_report_progress(cb) == cb = "raising"

\* the report made by the handler of execute_transaction
RollingBack(n) == Report(0, n, "Rolling back")

\* the reports of execute_transaction around _preflight_validation
PreflightReports(n, valid) ==
    <<Report(0, n, "Validating..."),
      IF valid THEN Report(0, n, "Phase 1: Staging...") ELSE RollingBack(n)>>

\* the reports of one iteration of a phase on operation i (enumerate: i - 1)
StepReports(n, i, message, renamed) ==
    IF renamed THEN <<Report(i - 1, n, message)>>
    ELSE <<Report(i - 1, n, message), RollingBack(n)>>

\* the reports of execute_transaction around _verify_phase_one
CheckpointReports(n, verified) ==
    <<Report(0, n, "Checkpoint..."),
      IF verified THEN Report(0, n, "Phase 2: Finalizing...") ELSE RollingBack(n)>>

\* the report of execute_transaction after _commit_transaction
CommitReports(n, completed) ==
    IF completed THEN <<Report(n, n, "Complete!")>> ELSE <<RollingBack(n)>>

\* the values execute_transaction assigns to current_phase around
\* _preflight_validation: PREFLIGHT, then PHASE_ONE, or ROLLBACK in the handler
PreflightPhases(valid) ==
    IF valid THEN <<"preflight", "phase_one">> ELSE <<"preflight", "rollback">>

\* an execution that goes from phase one to phase two without a checkpoint
CheckpointPhases_skipped(verified) == <<"phase_two">>

\* the values assigned around _verify_phase_one: CHECKPOINT, then PHASE_TWO,
\* or ROLLBACK in the handler
CheckpointPhases(verified) ==
    IF verified THEN <<"checkpoint", "phase_two">> ELSE <<"checkpoint", "rollback">>

\* the values assigned around _commit_transaction: COMMIT, then PREFLIGHT in
\* the finally clause when it returns, or ROLLBACK in the handler
CommitPhases(completed) ==
    IF completed THEN <<"commit", "preflight">> ELSE <<"commit", "rollback">>

\* _preflight_validation: check every operation in order and give it its
\* staging path; the first violation raises (handler: current_phase becomes
\* ROLLBACK, then _rollback_transaction), otherwise phase one starts
PreflightWith(cb) ==
    /\ pc = "preflight"
    /\ IF _report_progress(cb)
       THEN /\ reports' = reports \o <<Report(0, Len(transaction), "Validating..."),
                                        RollingBack(Len(transaction))>>
            /\ phase_trace' = Append(phase_trace, "preflight")
            /\ current_phase' = "preflight"
            /\ pc' = "returned"
            /\ result' = "raised"
            /\ err_phase' = "report"
            /\ UNCHANGED transaction
       ELSE LET bad == FirstInvalid(fs, dir_writable, transaction)
                last == IF bad = 0 THEN Len(transaction) ELSE bad - 1
            IN  /\ transaction' =
                     [i \in 1..Len(transaction) |->
                         IF i <= last
                         THEN [transaction[i] EXCEPT
                                 !.staging_path = get_staging_filename(transaction[i])]
                         ELSE transaction[i]]
                /\ reports' = reports \o PreflightReports(Len(transaction), bad = 0)
                /\ phase_trace' = phase_trace \o PreflightPhases(bad = 0)
                /\ current_phase' = Last(PreflightPhases(bad = 0))
                /\ IF bad = 0
                   THEN /\ pc' = "phase_one"
                        /\ UNCHANGED err_phase
                   ELSE /\ pc' = "rollback"
                        /\ err_phase' = "preflight"
                /\ UNCHANGED result
    /\ idx' = 1
    /\ UNCHANGED <<fs, env_vars, logger_calls>>
    /\ UNCHANGED worker_vars
    /\ UNCHANGED <<fs0, err_idx, rename_errors, rollback_errors, cancel_phase, cancel_idx>>

Preflight == PreflightWith(progress_callback)

\* a handler that records the failure on no operation
RecordFailure_unmarked(op, err) == op

\* the except clause of a rename in phase one and in phase two: the failure
\* is recorded on the operation, status and message (str(e))
RecordFailure(op, err) == [op EXCEPT !.status = "FAILED", !.error_message = err]

\* one iteration of _execute_phase_one: original -> staging
PhaseOneStep ==
    /\ pc = "phase_one"
    /\ idx <= Len(transaction)
    /\ \E envfail \in BOOLEAN :
         /\ envfail => rename_errors < MaxFailures
         /\ LET op == transaction[idx]
                r  == _safe_rename(fs, op.original_path, op.staging_path, envfail)
            IN  /\ envfail => r.err = "OSError"
                /\ fs' = r.fs
                /\ IF r.err = ""
                   THEN /\ transaction' = [transaction EXCEPT ![idx].status = "STAGED"]
                        /\ reports' = reports \o
                              StepReports(Len(transaction), idx, "Staging", TRUE)
                        /\ idx' = idx + 1
                        /\ UNCHANGED <<current_phase, pc, err_phase, err_idx,
                                       rename_errors, phase_trace>>
                   ELSE /\ transaction' = [transaction EXCEPT
                                              ![idx] = RecordFailure(op, r.err)]
                        /\ current_phase' = "rollback"
                        /\ phase_trace' = Append(phase_trace, "rollback")
                        /\ pc' = "rollback"
                        /\ idx' = 1
                        /\ err_phase' = "phase_one"
                        /\ reports' = reports \o
                              StepReports(Len(transaction), idx, "Staging", FALSE)
                        /\ err_idx' = idx
                        /\ rename_errors' = rename_errors + 1
    /\ UNCHANGED <<env_vars, result, logger_calls>>
    /\ UNCHANGED worker_vars
    /\ UNCHANGED <<fs0, rollback_errors, cancel_phase, cancel_idx>>

\* _execute_phase_one returned: the checkpoint, _verify_phase_one
Checkpoint ==
    /\ pc = "phase_one"
    /\ idx > Len(transaction)
    /\ phase_trace' = phase_trace \o CheckpointPhases(VerifyPhaseOne(fs, transaction))
    /\ current_phase' = Last(CheckpointPhases(VerifyPhaseOne(fs, transaction)))
    /\ reports' = reports \o
          CheckpointReports(Len(transaction), VerifyPhaseOne(fs, transaction))
    /\ IF VerifyPhaseOne(fs, transaction)
       THEN /\ pc' = "phase_two"
            /\ UNCHANGED err_phase
       ELSE /\ pc' = "rollback"
            /\ err_phase' = "checkpoint"
    /\ idx' = 1
    /\ UNCHANGED <<transaction, fs, env_vars, result, logger_calls>>
    /\ UNCHANGED worker_vars
    /\ UNCHANGED <<fs0, err_idx, rename_errors, rollback_errors, cancel_phase, cancel_idx>>

\* one iteration of _execute_phase_two: staging -> target
PhaseTwoStep ==
    /\ pc = "phase_two"
    /\ idx <= Len(transaction)
    /\ \E envfail \in BOOLEAN :
         /\ envfail => rename_errors < MaxFailures
         /\ LET op == transaction[idx]
                r  == _safe_rename(fs, op.staging_path, op.target_path, envfail)
            IN  /\ envfail => r.err = "OSError"
                /\ fs' = r.fs
                /\ IF r.err = ""
                   THEN /\ transaction' = [transaction EXCEPT ![idx].status = "COMPLETED"]
                        /\ reports' = reports \o
                              StepReports(Len(transaction), idx, "Finalizing", TRUE)
                        /\ idx' = idx + 1
                        /\ UNCHANGED <<current_phase, pc, err_phase, err_idx,
                                       rename_errors, phase_trace>>
                   ELSE /\ transaction' = [transaction EXCEPT
                                              ![idx] = RecordFailure(op, r.err)]
                        /\ current_phase' = "rollback"
                        /\ phase_trace' = Append(phase_trace, "rollback")
                        /\ pc' = "rollback"
                        /\ idx' = 1
                        /\ err_phase' = "phase_two"
                        /\ reports' = reports \o
                              StepReports(Len(transaction), idx, "Finalizing", FALSE)
                        /\ err_idx' = idx
                        /\ rename_errors' = rename_errors + 1
    /\ UNCHANGED <<env_vars, result, logger_calls>>
    /\ UNCHANGED worker_vars
    /\ UNCHANGED <<fs0, rollback_errors, cancel_phase, cancel_idx>>

\* _execute_phase_two returned: _commit_transaction, then return True
\* (finally: current_phase back to PREFLIGHT)
Commit ==
    /\ pc = "phase_two"
    /\ idx > Len(transaction)
    /\ phase_trace' = phase_trace \o CommitPhases(all_completed(transaction))
    /\ current_phase' = Last(CommitPhases(all_completed(transaction)))
    /\ reports' = reports \o CommitReports(Len(transaction), all_completed(transaction))
    /\ IF all_completed(transaction)
       THEN /\ pc' = "returned"
            /\ result' = "true"
            /\ logger_calls' = Append(logger_calls, LogComplete(TRUE))
            /\ UNCHANGED err_phase
       ELSE /\ pc' = "rollback"
            /\ err_phase' = "commit"
            /\ UNCHANGED <<result, logger_calls>>
    /\ idx' = 1
    /\ UNCHANGED <<transaction, fs, env_vars>>
    /\ UNCHANGED worker_vars
    /\ UNCHANGED <<fs0, err_idx, rename_errors, rollback_errors, cancel_phase, cancel_idx>>

\* ---------------------------------------------------- _rollback_transaction
\* entry of _rollback_transaction: the early return and the reversal of
\* phase two, both decided by current_phase as the handler left it
RollbackEnter ==
    /\ pc = "rollback"
    /\ IF current_phase \in {"preflight", "commit"}
       THEN /\ pc' = "rollback_return"
            /\ UNCHANGED <<transaction, fs, rename_errors, rollback_errors>>
       ELSE \E F \in SUBSET (1..Len(transaction)) :
              /\ current_phase # "phase_two" => F = {}
              /\ rename_errors + Cardinality(F) <= MaxFailures
              /\ LET st0 == [tx |-> transaction, fs |-> fs, errors |-> 0]
                     st  == IF current_phase = "phase_two"
                            THEN ReversePhaseTwo(st0, 1, F)
                            ELSE st0
                 IN  /\ transaction' = st.tx
                     /\ fs' = st.fs
                     /\ rename_errors' = rename_errors + st.errors
                     /\ rollback_errors' = rollback_errors + st.errors
                     /\ pc' = "rollback_one"
    /\ idx' = 1
    /\ UNCHANGED <<env_vars, current_phase, result>>
    /\ UNCHANGED worker_vars
    /\ UNCHANGED <<fs0, err_phase, err_idx, cancel_phase, cancel_idx, phase_trace,
                   sink_vars>>

\* one iteration of the second loop of _rollback_transaction: a STAGED
\* operation is renamed staging -> original, then the operation's staging
\* file is deleted if it is still there
RollbackStep ==
    /\ pc = "rollback_one"
    /\ idx <= Len(transaction)
    /\ \E envfail \in BOOLEAN :
         /\ envfail => rename_errors < MaxFailures
         /\ LET op == transaction[idx]
                attempt == NeedsRestore(fs, op)
                r  == IF attempt
                      THEN _safe_rename(fs, op.staging_path, op.original_path, envfail)
                      ELSE [err |-> "", fs |-> fs]
            IN  /\ envfail => r.err = "OSError"
                /\ transaction' = IF attempt /\ r.err = ""
                                  THEN [transaction EXCEPT ![idx].status = "ROLLED_BACK"]
                                  ELSE transaction
                /\ fs' = CleanupStaging(r.fs, op)
                /\ rename_errors' = IF r.err = "" THEN rename_errors
                                    ELSE rename_errors + 1
                /\ rollback_errors' = IF r.err = "" THEN rollback_errors
                                      ELSE rollback_errors + 1
    /\ idx' = idx + 1
    /\ UNCHANGED <<env_vars, current_phase, pc, result>>
    /\ UNCHANGED worker_vars
    /\ UNCHANGED <<fs0, err_phase, err_idx, cancel_phase, cancel_idx, phase_trace,
                   sink_vars>>

\* _rollback_transaction returned or raised: execute_transaction returns
\* False or raises TransactionError (finally: current_phase back to PREFLIGHT)
RollbackDone ==
    /\ \/ pc = "rollback_return"
       \/ pc = "rollback_one" /\ idx > Len(transaction)
    /\ result' = IF RollbackRaises(rollback_errors) THEN "raised" ELSE "false"
    /\ logger_calls' = IF RollbackRaises(rollback_errors) THEN logger_calls
                       ELSE Append(logger_calls, LogComplete(FALSE))
    /\ current_phase' = "preflight"
    /\ phase_trace' = Append(phase_trace, "preflight")
    /\ pc' = "returned"
    /\ UNCHANGED <<transaction, fs, env_vars, idx>>
    /\ UNCHANGED worker_vars
    /\ UNCHANGED <<fs0, err_phase, err_idx, rename_errors, rollback_errors,
                   cancel_phase, cancel_idx, reports>>

Next ==
    \/ Start
    \/ Cancel
    \/ TaskComplete
    \/ UpdateFromWorker
    \/ Preflight
    \/ PhaseOneStep
    \/ Checkpoint
    \/ PhaseTwoStep
    \/ Commit
    \/ RollbackEnter
    \/ RollbackStep
    \/ RollbackDone

Spec == Init /\ [][Next]_vars

\* the same executions on every platform
InitCase ==
    /\ InitOn(Platforms, MaxOps)
    /\ metadata_list = <<>>
    /\ called = "none"
    /\ out = <<>>
    /\ NoBuild
    /\ NoThreads
    /\ PlainRun

SpecCase == InitCase /\ [][Next]_vars

\* executions of batches of up to RollbackOps operations in a directory
\* where every name is a readable regular file and the directory is writable
InitRollback ==
    /\ InitOn({"posix"}, RollbackOps)
    /\ Len(transaction) >= 1
    /\ \A p \in Names : fs[p].kind = "file"
    /\ dir_writable
    /\ metadata_list = <<>>
    /\ called = "none"
    /\ out = <<>>
    /\ NoBuild
    /\ NoThreads
    /\ PlainRun

SpecRollback == InitRollback /\ [][Next]_vars

\* ------------------------------------ logging_service.py: the undo script
\* RenameStatus.COMPLETED.value, the status text in the transaction log
CompletedValue == "COMPLETED"

\* _build_transaction_log: the operations as the log records them
TransactionLog(tx) ==
    [i \in 1..Len(tx) |->
        [original_path |-> tx[i].original_path, target_path |-> tx[i].target_path,
         status |-> tx[i].status, error |-> tx[i].error_message]]

\* build_undo_script: one 'mv target original' per completed operation of
\* the log, in the order of the log
UndoCommands(log) ==
    LET done == SelectSeq(log, LAMBDA op : op.status = CompletedValue)
    IN  [k \in 1..Len(done) |->
            [source |-> done[k].target_path, target |-> done[k].original_path]]

\* mv source target in the shell: an error and no change when the source
\* is missing or both name the same file; into the target when it is a
\* directory (the file leaves the names followed here); otherwise the
\* target's entry, if any, is replaced
Mv(f, source, target) ==
    IF ~Exists(f, source) \/ Key(source) = Key(target) THEN f
    ELSE IF f[Key(target)].kind = "dir" THEN Unlink(f, source)
    ELSE Move(f, source, target)

\* LoggingService.build_undo_script for the transaction that has committed
BuildUndoScript ==
    /\ pc = "reported"
    /\ result = "true"
    /\ ~DryRun(dry_run_mode)
    /\ undo = NoUndo
    /\ undo' = [script |-> UndoCommands(TransactionLog(transaction)), pos |-> 1,
                overwrote |-> FALSE]
    /\ UNCHANGED <<transaction, fs, dir_writable, platform, progress_callback,
                   dry_run_mode, current_phase, pc, idx, result, worker_vars,
                   hist_vars, called, out, input_vars>>

\* the shell runs the next command of the undo script
UndoCommand ==
    /\ undo.pos \in 1..Len(undo.script)
    /\ LET cmd == undo.script[undo.pos]
       IN  /\ fs' = Mv(fs, cmd.source, cmd.target)
           /\ undo' = [undo EXCEPT
                         !.pos = undo.pos + 1,
                         !.overwrote = \/ undo.overwrote
                                       \/ /\ Exists(fs, cmd.source)
                                          /\ Key(cmd.source) # Key(cmd.target)
                                          /\ Exists(fs, cmd.target)]
    /\ UNCHANGED <<transaction, dir_writable, platform, progress_callback,
                   dry_run_mode, current_phase, pc, idx, result, worker_vars,
                   hist_vars, called, out, input_vars>>

NextUndo ==
    \/ Start
    \/ Cancel
    \/ TaskComplete
    \/ UpdateFromWorker
    \/ Preflight
    \/ PhaseOneStep
    \/ Checkpoint
    \/ PhaseTwoStep
    \/ Commit
    \/ RollbackEnter
    \/ RollbackStep
    \/ RollbackDone
    \/ BuildUndoScript
    \/ UndoCommand

SpecUndo == Init /\ [][NextUndo]_vars

\* the executions of the transaction started so far: the controller logs
\* each start
Executions == Len(SelectSeq(logger_calls, LAMBDA c : c = LogStart))

\* PlaylistRenamerGUI._execute_rename once more, after the update loop has
\* reported a committed execution: the same transaction object, its
\* operations as the first execution left them, goes to a new manager.  The
\* histories start again: fs0 is the directory as the first execution left it.
Reexecute ==
    /\ pc = "reported"
    /\ result = "true"
    /\ ~DryRun(dry_run_mode)
    /\ ~is_running
    /\ Executions < MaxExecutions
    /\ status' = "running"
    /\ cancel_flag' = FALSE
    /\ thread_alive' = TRUE
    /\ cancel_btn' = "normal"
    /\ pc' = "preflight"
    /\ result' = "none"
    /\ idx' = 0
    /\ logger_calls' = Append(logger_calls, LogStart)
    /\ fs0' = fs
    /\ err_phase' = "none"
    /\ err_idx' = 0
    /\ cancel_phase' = "none"
    /\ cancel_idx' = 0
    /\ phase_trace' = <<>>
    /\ reports' = <<>>
    /\ UNCHANGED <<transaction, fs, env_vars, current_phase, rename_errors,
                   rollback_errors>>

NextAgain ==
    \/ Start
    \/ Cancel
    \/ TaskComplete
    \/ UpdateFromWorker
    \/ Preflight
    \/ PhaseOneStep
    \/ Checkpoint
    \/ PhaseTwoStep
    \/ Commit
    \/ RollbackEnter
    \/ RollbackStep
    \/ RollbackDone
    \/ Reexecute

SpecAgain == Init /\ [][NextAgain]_vars

\* executions asked for through ApplicationController.execute_transaction:
\* with or without a progress callback, as a dry run or not
InitControl ==
    /\ InitOn({"posix"}, MaxOps)
    /\ progress_callback \in Callbacks
    /\ dry_run_mode \in BOOLEAN
    /\ metadata_list = <<>>
    /\ called = "none"
    /\ out = <<>>
    /\ NoBuild
    /\ NoThreads

SpecControl == InitControl /\ [][Next]_vars

\* ------------------------------------------------ sorter.py: ConflictDetector
\* the variables of an execution, which the pure analyses leave alone
engine_vars == <<transaction, fs, dir_writable, platform, config_vars, current_phase, pc, idx,
                 result, worker_vars, hist_vars>>

\* a Path as a dict key or set member (Path.__hash__ and __eq__)
PathKey(p) == IF platform = "windows" THEN Lower(p) ELSE p

\* an empty dict
EmptyDict == [k \in {} |-> <<>>]

\* grouping by the exact target name
TargetKey_exact(op) == op.target_path

\* the grouping key of detect_duplicate_targets: op.target_name.lower()
\* (target_path is the target name in the one directory)
TargetKey(op) == Lower(op.target_path)

\* the loop of detect_duplicate_targets from operation i on, filling target_map
RECURSIVE TargetMap(_, _, _)
TargetMap(ops, i, target_map) ==
    IF i > Len(ops) THEN target_map
    ELSE LET target_lower == TargetKey(ops[i])
             m == IF target_lower \in DOMAIN target_map
                  THEN target_map
                  ELSE target_map @@ (target_lower :> <<>>)
         IN  TargetMap(ops, i + 1, [m EXCEPT ![target_lower] = Append(@, i)])

\* ConflictDetector.detect_duplicate_targets: lower-cased target name ->
\* the operations (by position) producing it, for the names produced twice
detect_duplicate_targets(ops) ==
    LET target_map == TargetMap(ops, 1, EmptyDict)
    IN  [name \in {n \in DOMAIN target_map : Len(target_map[n]) > 1} |->
            target_map[name]]

\* the loop of detect_target_collisions from operation i on
RECURSIVE Collisions(_, _, _, _, _)
Collisions(ops, f, source_paths, i, collisions) ==
    IF i > Len(ops) THEN collisions
    ELSE IF /\ Exists(f, ops[i].target_path)
            /\ PathKey(ops[i].target_path) \notin source_paths
         THEN Collisions(ops, f, source_paths, i + 1,
                         Append(collisions, <<i, ops[i].target_path>>))
         ELSE Collisions(ops, f, source_paths, i + 1, collisions)

\* ConflictDetector.detect_target_collisions: (operation, existing path) pairs
detect_target_collisions(ops, f) ==
    Collisions(ops, f, {PathKey(ops[i].original_path) : i \in 1..Len(ops)}, 1, <<>>)

\* op_map of detect_circular_renames: the operation stored under a source path
OpOf(ops, p) ==
    CHOOSE i \in 1..Len(ops) :
        /\ PathKey(ops[i].original_path) = p
        /\ \A j \in 1..Len(ops) : PathKey(ops[j].original_path) = p => j <= i

\* find_cycle of detect_circular_renames; st holds the closure's visited set
\* and cycles list, path the source paths walked from start
RECURSIVE find_cycle(_, _, _, _, _)
find_cycle(ops, start, current, path, st) ==
    IF current = start /\ Len(path) > 1
    THEN [visited |-> st.visited,
          cycles  |-> Append(st.cycles, [m \in 1..Len(path) |-> OpOf(ops, path[m])])]
    ELSE IF current \in st.visited
    THEN st
    ELSE LET st1 == [visited |-> st.visited \cup {current}, cycles |-> st.cycles]
         IN  IF \E i \in 1..Len(ops) : PathKey(ops[i].original_path) = current
             THEN find_cycle(ops, start,
                             PathKey(ops[OpOf(ops, current)].target_path),
                             Append(path, current), st1)
             ELSE st1

\* the loop of detect_circular_renames over the operations from i on
RECURSIVE CycleStarts(_, _, _)
CycleStarts(ops, i, st) ==
    IF i > Len(ops) THEN st
    ELSE LET start == PathKey(ops[i].original_path)
         IN  IF start \notin st.visited
             THEN CycleStarts(ops, i + 1, find_cycle(ops, start, start, <<>>, st))
             ELSE CycleStarts(ops, i + 1, st)

\* ConflictDetector.detect_circular_renames: the list of cycles, each the list
\* of its operations (by position)
detect_circular_renames(ops) ==
    CycleStarts(ops, 1, [visited |-> {}, cycles |-> <<>>]).cycles

\* ApplicationController.detect_conflicts: each analysis applied to the built
\* transaction
DetectDuplicateTargets ==
    /\ called = "none"
    /\ called' = "detect_duplicate_targets"
    /\ out' = detect_duplicate_targets(transaction)
    /\ UNCHANGED <<engine_vars, input_vars>>

DetectTargetCollisions ==
    /\ called = "none"
    /\ called' = "detect_target_collisions"
    /\ out' = detect_target_collisions(transaction, fs)
    /\ UNCHANGED <<engine_vars, input_vars>>

DetectCircularRenames ==
    /\ called = "none"
    /\ called' = "detect_circular_renames"
    /\ out' = detect_circular_renames(transaction)
    /\ UNCHANGED <<engine_vars, input_vars>>

InitConflicts ==
    /\ InitOn(Platforms, MaxDetectOps)
    /\ metadata_list = <<>>
    /\ called = "none"
    /\ out = <<>>
    /\ NoBuild
    /\ NoThreads
    /\ PlainRun

NextConflicts ==
    \/ DetectDuplicateTargets
    \/ DetectTargetCollisions
    \/ DetectCircularRenames

SpecConflicts == InitConflicts /\ [][NextConflicts]_vars

\* ------------------------------------- sorter.py: analyses of the metadata
\* extracted_number of an EpisodeMetadata for which the parser found no number
None == -1

\* EpisodeMetadata: the original name as its sequence of characters, and the
\* extracted number
EpisodeMetadata(name, number) ==
    [original_name |-> name, extracted_number |-> number]

\* the list built without the test 'is not None'
ExtractedNumbers_with_none(ml) == [i \in 1..Len(ml) |-> ml[i].extracted_number]

\* [m.extracted_number for m in metadata_list if m.extracted_number is not None]
ExtractedNumbers(ml) ==
    LET ms == SelectSeq(ml, LAMBDA m : m.extracted_number # None)
    IN  [i \in 1..Len(ms) |-> ms[i].extracted_number]

\* min(numbers) and max(numbers) of a non-empty list
Min(numbers) ==
    CHOOSE n \in {numbers[i] : i \in 1..Len(numbers)} :
        \A i \in 1..Len(numbers) : n <= numbers[i]

Max(numbers) ==
    CHOOSE n \in {numbers[i] : i \in 1..Len(numbers)} :
        \A i \in 1..Len(numbers) : n >= numbers[i]

\* the loop 'for i in range(min_num, max_num + 1)' from i on
RECURSIVE Gaps(_, _, _, _)
Gaps(i, max_num, numbers_set, gaps) ==
    IF i > max_num THEN gaps
    ELSE Gaps(i + 1, max_num, numbers_set,
              IF i \notin numbers_set THEN Append(gaps, i) ELSE gaps)

\* ConflictDetector.detect_number_gaps
detect_number_gaps(ml) ==
    LET numbers == ExtractedNumbers(ml)
    IN  IF Len(numbers) = 0 THEN <<>>
        ELSE Gaps(Min(numbers), Max(numbers),
                  {numbers[i] : i \in 1..Len(numbers)}, <<>>)

\* the loop of detect_duplicate_numbers from entry i on, filling number_map
RECURSIVE NumberMap(_, _, _)
NumberMap(ml, i, number_map) ==
    IF i > Len(ml) THEN number_map
    ELSE IF ml[i].extracted_number = None THEN NumberMap(ml, i + 1, number_map)
    ELSE LET num == ml[i].extracted_number
             m == IF num \in DOMAIN number_map
                  THEN number_map
                  ELSE number_map @@ (num :> <<>>)
         IN  NumberMap(ml, i + 1, [m EXCEPT ![num] = Append(@, ml[i])])

\* a filter that keeps every group
IsDuplicateGroup_any(metas) == Len(metas) > 0

\* the filter of the returned dict: len(metas) > 1
IsDuplicateGroup(metas) == Len(metas) > 1

\* ConflictDetector.detect_duplicate_numbers
detect_duplicate_numbers(ml) ==
    LET number_map == NumberMap(ml, 1, EmptyDict)
    IN  [num \in {n \in DOMAIN number_map : IsDuplicateGroup(number_map[n])} |->
            number_map[num]]

\* the lists of at most n entries over a set of entries
ListsOver(entries, n) == UNION {[1..k -> entries] : k \in 0..n}

\* names and numbers of the entries given to the two analyses
DetectNames == {<<"e">>, <<"f">>}
DetectNumbers == {None} \cup 0..MaxNumber

\* no transaction is built or executed while the metadata is analysed
NoExecution ==
    /\ platform = "posix"
    /\ transaction = <<>>
    /\ fs = [p \in Paths |-> NoFile]
    /\ dir_writable = TRUE
    /\ Constructed

\* ApplicationController.detect_conflicts: the analyses of the scanned metadata
DetectNumberGaps ==
    /\ called = "none"
    /\ called' = "detect_number_gaps"
    /\ out' = detect_number_gaps(metadata_list)
    /\ UNCHANGED <<engine_vars, input_vars>>

DetectDuplicateNumbers ==
    /\ called = "none"
    /\ called' = "detect_duplicate_numbers"
    /\ out' = detect_duplicate_numbers(metadata_list)
    /\ UNCHANGED <<engine_vars, input_vars>>

InitMetadata ==
    /\ NoExecution
    /\ metadata_list \in
         ListsOver({EpisodeMetadata(n, k) : n \in DetectNames, k \in DetectNumbers},
                   MaxMeta)
    /\ called = "none"
    /\ out = <<>>
    /\ NoBuild
    /\ NoThreads
    /\ PlainRun

NextMetadata ==
    \/ DetectNumberGaps
    \/ DetectDuplicateNumbers

SpecMetadata == InitMetadata /\ [][NextMetadata]_vars

\* ------------------------------------------- sorter.py: NumberingAdjuster
\* the entries and the start values given to renumber_sequentially
MaxRenumber == 3

\* f"{meta.extraction_method}_renumbered": the text added to the method
RenumberedSuffix == <<"_", "r", "e", "n", "u", "m", "b", "e", "r", "e", "d">>

\* EpisodeMetadata with all its fields; the confidence in tenths
FullMetadata(name, season, episode, number, confidence, title, ext, method) ==
    [original_name |-> name, file_path |-> [parent |-> "d", name |-> name],
     season |-> season, episode |-> episode, extracted_number |-> number,
     confidence |-> confidence, cleaned_title |-> title, extension |-> ext,
     extraction_method |-> method]

\* every entry gets the start value
RenumberedNumber_constant(start, i) == start

\* extracted_number=start + i, i counted from 0 by enumerate
RenumberedNumber(start, i) == start + i

\* NumberingAdjuster.renumber_sequentially
renumber_sequentially(ml, start) ==
    [k \in 1..Len(ml) |->
        FullMetadata(ml[k].original_name, ml[k].season, ml[k].episode,
                     RenumberedNumber(start, k - 1), ml[k].confidence,
                     ml[k].cleaned_title, ml[k].extension,
                     ml[k].extraction_method \o RenumberedSuffix)]

\* the entries renumbered: scanned with or without a number, by two patterns
RenumberEntries ==
    {FullMetadata(n, IF k = None THEN None ELSE 1, k, k,
                  IF k = None THEN 0 ELSE 9, n, <<".", "m">>, m) :
        n \in DetectNames, k \in {None, 2},
        m \in {<<>>, <<"s", "e">>}}

\* the start values: below zero, zero, the default 1, the largest number
Starts == {-(MaxRenumber + 2), 0, 1, MaxNumber}

\* one call of NumberingAdjuster.renumber_sequentially
RenumberSequentially ==
    /\ called = "none"
    /\ called' = "renumber_sequentially"
    /\ \E start \in Starts :
          out' = [given |-> metadata_list, start |-> start,
                  renumbered |-> renumber_sequentially(metadata_list, start)]
    /\ UNCHANGED <<engine_vars, input_vars>>

InitRenumber ==
    /\ NoExecution
    /\ metadata_list \in ListsOver(RenumberEntries, MaxRenumber)
    /\ called = "none"
    /\ out = <<>>
    /\ NoBuild
    /\ NoThreads
    /\ PlainRun

NextRenumber == RenumberSequentially

SpecRenumber == InitRenumber /\ [][NextRenumber]_vars

\* ---------------------------------------------- sorter.py: NaturalSorter
\* the decimal digits; every other character of a name is a letter
Digits == {"0", "1", "2"}

\* the value of a decimal digit
DigitValue(c) == IF c = "0" THEN 0 ELSE IF c = "1" THEN 1 ELSE 2

\* the code point of a character, by which str compares
Ord(c) ==
    IF c = "0" THEN 48 ELSE IF c = "1" THEN 49 ELSE IF c = "2" THEN 50
    ELSE IF c = "E" THEN 69 ELSE IF c = "e" THEN 101 ELSE 102

\* str.lower() of one character
LowerChar(c) == IF c = "E" THEN "e" ELSE c

\* the end of the maximal run of digits (d = TRUE) or of other characters
\* (d = FALSE) that starts at position i of text: the first position after it
RECURSIVE RunEnd(_, _, _)
RunEnd(text, i, d) ==
    IF i <= Len(text) /\ ((text[i] \in Digits) <=> d)
    THEN RunEnd(text, i + 1, d)
    ELSE i

\* re.split(r'(\d+)', text) from position i on: the runs of other characters,
\* possibly empty, alternating with the maximal runs of digits between them
RECURSIVE Split(_, _)
Split(text, i) ==
    LET j == RunEnd(text, i, FALSE)
        k == RunEnd(text, j, TRUE)
    IN  IF j > Len(text)
        THEN <<SubSeq(text, i, j - 1)>>
        ELSE <<SubSeq(text, i, j - 1), SubSeq(text, j, k - 1)>> \o Split(text, k)

\* str.isdigit()
isdigit(part) == Len(part) > 0 /\ \A i \in 1..Len(part) : part[i] \in Digits

\* int() of a run of digits
RECURSIVE int(_)
int(part) ==
    IF Len(part) = 0 THEN 0
    ELSE 10 * int(SubSeq(part, 1, Len(part) - 1)) + DigitValue(part[Len(part)])

\* str.lower()
lower(part) == [i \in 1..Len(part) |-> LowerChar(part[i])]

\* a conversion that leaves runs of digits as text
convert_as_text(part) == [type |-> "str", value |-> lower(part)]

\* convert of natural_sort_key: an int for a run of digits, else the
\* lower-cased text
convert(part) ==
    IF isdigit(part)
    THEN [type |-> "int", value |-> int(part)]
    ELSE [type |-> "str", value |-> lower(part)]

\* NaturalSorter.natural_sort_key
natural_sort_key(text) ==
    LET parts == Split(text, 1)
    IN  [i \in 1..Len(parts) |-> convert(parts[i])]

\* str.__lt__: the first differing character decides by code point, and a
\* proper prefix is smaller
RECURSIVE StrLess(_, _)
StrLess(a, b) ==
    IF Len(b) = 0 THEN FALSE
    ELSE IF Len(a) = 0 THEN TRUE
    ELSE IF a[1] # b[1] THEN Ord(a[1]) < Ord(b[1])
    ELSE StrLess(Tail(a), Tail(b))

\* < of two elements of a key; re.split puts text at the even and digits at
\* the odd indices of every list, so the two are always of one type
ElemLess(x, y) ==
    IF x.type = "int" THEN x.value < y.value ELSE StrLess(x.value, y.value)

\* list.__lt__: the first differing element decides, and a proper prefix is
\* smaller
RECURSIVE ListLess(_, _)
ListLess(a, b) ==
    IF Len(b) = 0 THEN FALSE
    ELSE IF Len(a) = 0 THEN TRUE
    ELSE IF a[1] # b[1] THEN ElemLess(a[1], b[1])
    ELSE ListLess(Tail(a), Tail(b))

\* the primary key given to an entry without a number
NoNumberKey == 999999

\* sort_key of sort_metadata: (number, natural_key)
sort_key(meta) ==
    <<IF meta.extracted_number # None THEN meta.extracted_number ELSE NoNumberKey,
      natural_sort_key(meta.original_name)>>

\* tuple.__lt__ of two sort keys
KeyLess(k1, k2) ==
    \/ k1[1] < k2[1]
    \/ k1[1] = k2[1] /\ ListLess(k1[2], k2[2])

\* sorted(metadata_list, key=sort_key) from entry i on: a stable sort, so an
\* entry goes before the first already placed entry of a greater key
RECURSIVE Sorted(_, _, _)
Sorted(ml, i, acc) ==
    IF i > Len(ml) THEN acc
    ELSE LET later == {p \in 1..Len(acc) : KeyLess(sort_key(ml[i]), sort_key(acc[p]))}
             at == IF later = {} THEN Len(acc) + 1
                   ELSE CHOOSE p \in later : \A q \in later : p <= q
         IN  Sorted(ml, i + 1,
                    SubSeq(acc, 1, at - 1) \o <<ml[i]>> \o SubSeq(acc, at, Len(acc)))

\* NaturalSorter.sort_metadata
sort_metadata(ml) == Sorted(ml, 1, <<>>)

\* the names given to the sorter: a run of letters and then a run of digits,
\* or a run of digits and then a letter
NamePrefixes == {<<>>, <<"e">>, <<"E">>}
NameDigits == {<<>>, <<"1">>, <<"2">>, <<"1", "0">>, <<"0", "1">>}
SortNames ==
    ({p \o d : p \in NamePrefixes, d \in NameDigits} \ {<<>>})
        \cup {d \o <<"f">> : d \in NameDigits}

\* the extracted numbers given to the sorter
SortNumbers == {None, 2, 10, NoNumberKey, NoNumberKey + 1}

\* lists of entries of many numbers and few names
NumberLists ==
    ListsOver({EpisodeMetadata(n, k) : n \in {<<"e">>, <<"f">>}, k \in SortNumbers},
              MaxSort)

\* lists of entries of many names that all carry the same number, or none
NameLists ==
    UNION {ListsOver({EpisodeMetadata(n, k) : n \in SortNames}, MaxSort) :
             k \in {None, 1}}

\* ApplicationController.scan_and_parse: the parsed metadata is sorted
SortMetadata ==
    /\ called = "none"
    /\ called' = "sort_metadata"
    /\ out' = sort_metadata(metadata_list)
    /\ UNCHANGED <<engine_vars, input_vars>>

InitSort ==
    /\ NoExecution
    /\ metadata_list \in NumberLists \cup NameLists
    /\ called = "none"
    /\ out = <<>>
    /\ NoBuild
    /\ NoThreads
    /\ PlainRun

NextSort == SortMetadata

SpecSort == InitSort /\ [][NextSort]_vars

\* ------------------------------------------- validator.py: SafeFormatter
\* field_name of a parsed item that is literal text only
NoField == "None"

\* one tuple of Formatter.parse: literal text, then possibly a field with its
\* format spec and conversion ("" for none)
Item(lit, name, spec, conv) ==
    [literal_text |-> lit, field_name |-> name, format_spec |-> spec,
     conversion |-> conv]

\* templates, as Formatter.parse reads them; parses = FALSE when it raises
DefaultTemplate ==                              \* "{number}. {title}"
    [parses |-> TRUE,
     items |-> <<Item(<<>>, "number", "", ""), Item(<<".", " ">>, "title", "", "")>>]
PaddedTemplate ==                               \* "{number:02d}"
    [parses |-> TRUE, items |-> <<Item(<<>>, "number", "02d", "")>>]
TitleAsNumberTemplate ==                        \* "{title:02d}"
    [parses |-> TRUE, items |-> <<Item(<<>>, "title", "02d", "")>>]
ConvertedTemplate ==                            \* "{number!s}{extension}"
    [parses |-> TRUE,
     items |-> <<Item(<<>>, "number", "", "s"), Item(<<>>, "extension", "", "")>>]
LiteralTemplate ==                              \* "e"
    [parses |-> TRUE, items |-> <<Item(<<"e">>, NoField, "", "")>>]
SlashTemplate ==                                \* "a/{title}"
    [parses |-> TRUE, items |-> <<Item(<<"a", "/">>, "title", "", "")>>]
UnknownFieldTemplate ==                         \* "{foo}"
    [parses |-> TRUE, items |-> <<Item(<<>>, "foo", "", "")>>]
AttributeTemplate ==                            \* "{title.__class__}"
    [parses |-> TRUE, items |-> <<Item(<<>>, "title.__class__", "", "")>>]
BadConversionTemplate ==                        \* "{title!x}"
    [parses |-> TRUE, items |-> <<Item(<<>>, "title", "", "x")>>]
OpenBraceTemplate ==                            \* "{"
    [parses |-> FALSE, items |-> <<>>]
EscapedBraceTemplate ==                         \* "{{"
    [parses |-> TRUE, items |-> <<Item(<<"{">>, NoField, "", "")>>]

Templates ==
    {EmptyTemplate, DefaultTemplate, PaddedTemplate, TitleAsNumberTemplate,
     ConvertedTemplate, LiteralTemplate, SlashTemplate, UnknownFieldTemplate,
     AttributeTemplate,
     BadConversionTemplate, OpenBraceTemplate, EscapedBraceTemplate}

\* SafeFormatter.ALLOWED_PLACEHOLDERS
ALLOWED_PLACEHOLDERS == {"number", "title", "season", "episode", "extension"}

\* DANGEROUS_PATTERN.search(field_name): the name holds '.', '[' or ']'
DANGEROUS_PATTERN(field_name) == field_name \in {"title.__class__", "title[0]"}

\* the loop of validate_format_string over the parsed items from item i on:
\* the error of the first offending item, or "" when there is none
RECURSIVE CheckFields(_, _)
CheckFields(items, i) ==
    IF i > Len(items) THEN ""
    ELSE IF items[i].field_name = NoField THEN CheckFields(items, i + 1)
    ELSE IF DANGEROUS_PATTERN(items[i].field_name) THEN "Forbidden pattern in field"
    ELSE IF items[i].field_name \notin ALLOWED_PLACEHOLDERS THEN "Unknown placeholder"
    ELSE IF items[i].conversion \notin {"", "s", "r", "a"} THEN "Invalid conversion"
    ELSE CheckFields(items, i + 1)

\* c in format_str, for a brace c: a field is written with both braces, and a
\* doubled brace is read as that brace in the literal text
InFormatStr(t, c) ==
    \E i \in 1..Len(t.items) :
        \/ t.items[i].field_name # NoField
        \/ \E k \in 1..Len(t.items[i].literal_text) : t.items[i].literal_text[k] = c

\* a validation that accepts every template
validate_format_string_accepts_all(t) == [is_valid |-> TRUE, error_message |-> ""]

\* SafeFormatter.validate_format_string
validate_format_string(t) ==
    IF ~t.parses
    THEN [is_valid |-> FALSE, error_message |-> "Invalid format syntax"]
    ELSE IF CheckFields(t.items, 1) # ""
    THEN [is_valid |-> FALSE, error_message |-> CheckFields(t.items, 1)]
    ELSE IF InFormatStr(t, "{") /\ ~InFormatStr(t, "}")
    THEN [is_valid |-> FALSE, error_message |-> "Unmatched brace in format string"]
    ELSE [is_valid |-> TRUE, error_message |-> ""]

\* the decimal digits, by value
DigitChars == <<"0", "1", "2", "3", "4", "5", "6", "7", "8", "9">>

\* str() of a non-negative int
RECURSIVE str(_)
str(n) ==
    IF n < 10 THEN <<DigitChars[n + 1]>>
    ELSE str(n \div 10) \o <<DigitChars[(n % 10) + 1]>>

\* the title of an entry whose cleaned title is empty
Untitled == <<"u", "n", "t", "i", "t", "l", "e", "d">>

\* 'x or 0' for an optional int
OrZero(x) == IF x = None THEN 0 ELSE x

\* the context dictionary of format_safe
Context(metadata) ==
    [number |-> [type |-> "int", value |-> OrZero(metadata.extracted_number)],
     title |-> [type |-> "str",
                value |-> IF metadata.cleaned_title = <<>> THEN Untitled
                          ELSE metadata.cleaned_title],
     season |-> [type |-> "int", value |-> OrZero(metadata.season)],
     episode |-> [type |-> "int", value |-> OrZero(metadata.episode)],
     extension |-> [type |-> "str", value |-> metadata.extension]]

\* str.format of one field: the conversion !s makes the value text, the spec
\* 02d pads an int with zeros to two digits and is an error for text
FormatField(v, spec, conv) ==
    LET isint == v.type = "int" /\ conv = ""
        text == IF v.type = "int" THEN str(v.value) ELSE v.value
    IN  IF spec = "" THEN [ok |-> TRUE, text |-> text]
        ELSE IF ~isint THEN [ok |-> FALSE, text |-> <<>>]
        ELSE [ok |-> TRUE, text |-> IF v.value < 10 THEN <<"0">> \o text ELSE text]

\* format_str.format(**context) from item i on, appended to acc
RECURSIVE FormatItems(_, _, _, _)
FormatItems(items, context, i, acc) ==
    IF i > Len(items) THEN [raised |-> "none", value |-> acc]
    ELSE IF items[i].field_name = NoField
    THEN FormatItems(items, context, i + 1, acc \o items[i].literal_text)
    ELSE LET f == FormatField(context[items[i].field_name], items[i].format_spec,
                              items[i].conversion)
         IN  IF ~f.ok THEN [raised |-> "ValueError", value |-> <<>>]
             ELSE FormatItems(items, context, i + 1,
                              acc \o items[i].literal_text \o f.text)

\* SafeFormatter.format_safe
format_safe(t, metadata) ==
    IF ~validate_format_string(t).is_valid
    THEN [raised |-> "ValueError", value |-> <<>>]
    ELSE FormatItems(t.items, Context(metadata), 1, <<>>)

\* -------------------------------------- sanitizer.py: FilenameSanitizer
\* The stems given to the sanitizer are written with letters, digits, '_',
\* '-', ':' and ' ' and hold none of the words the technical patterns remove,
\* so of sanitize() the steps below are the ones that act.

\* pattern.sub('', text) for a pattern that matches the characters of cs
RemoveChars(text, cs) == SelectSeq(text, LAMBDA c : c \notin cs)

\* str.strip(chars)
RECURSIVE Strip(_, _)
Strip(text, cs) ==
    IF Len(text) > 0 /\ text[1] \in cs THEN Strip(Tail(text), cs)
    ELSE IF Len(text) > 0 /\ text[Len(text)] \in cs
    THEN Strip(SubSeq(text, 1, Len(text) - 1), cs)
    ELSE text

\* re.sub(r'[-\s]+', ' ', text): every run of hyphens and spaces becomes one
\* space
RECURSIVE CollapseSeparators(_)
CollapseSeparators(text) ==
    IF Len(text) = 0 THEN <<>>
    ELSE IF text[1] \in {"-", " "}
    THEN IF Len(text) > 1 /\ text[2] \in {"-", " "}
         THEN CollapseSeparators(Tail(text))
         ELSE <<" ">> \o CollapseSeparators(Tail(text))
    ELSE <<text[1]>> \o CollapseSeparators(Tail(text))

\* FilenameSanitizer._remove_unsafe_chars
_remove_unsafe_chars(text) ==
    Strip(RemoveChars(text, {"<", ">", ":", "\"", "/", "\\", "|", "?", "*"}), {"."})

\* FilenameSanitizer._normalize_separators, for a text without dots
_normalize_separators(text) ==
    CollapseSeparators([i \in 1..Len(text) |-> IF text[i] = "_" THEN " " ELSE text[i]])

\* FilenameSanitizer.sanitize
sanitize(filename) ==
    LET cleaned == Strip(_normalize_separators(_remove_unsafe_chars(filename)),
                         {" ", "."})
    IN  IF cleaned = <<>> THEN Untitled ELSE cleaned

\* ------------------------------- rename_transaction.py: TransactionBuilder
\* a Path: the directory and the file name
Path(parent, name) == [parent |-> parent, name |-> name]

\* the position of the last '/' of a string, or 0
LastSlash(name) ==
    LET slashes == {i \in 1..Len(name) : name[i] = "/"}
    IN  IF slashes = {} THEN 0
        ELSE CHOOSE i \in slashes : \A j \in slashes : j <= i

\* parent / name (PurePath.__truediv__): the text of name before its last
\* '/' goes into the directory; a name that starts with '/' replaces parent
Join(parent, name) ==
    LET k == LastSlash(name)
        dirs == SubSeq(name, 1, k - 1)
    IN  IF k = 0 THEN Path(parent, name)
        ELSE IF name[1] = "/"
        THEN Path(IF k = 1 THEN <<"/">> ELSE dirs, SubSeq(name, k + 1, Len(name)))
        ELSE Path(parent \o <<"/">> \o dirs, SubSeq(name, k + 1, Len(name)))

\* the position of the last '.' of a name that starts a suffix, or 0
SuffixStart(name) ==
    LET dots == {i \in 2..Len(name) : name[i] = "."}
    IN  IF dots = {} \/ name[Len(name)] = "." THEN 0
        ELSE CHOOSE i \in dots : \A j \in dots : j <= i

\* Path.stem
stem(path) ==
    IF SuffixStart(path.name) = 0 THEN path.name
    ELSE SubSeq(path.name, 1, SuffixStart(path.name) - 1)

\* the EpisodeMetadata the parser makes for a file: the cleaned title is
\* left empty, season and episode are not modelled apart from being absent
ParsedMetadata(parent, file_stem, extension, number) ==
    [original_name |-> file_stem \o extension,
     file_path |-> Path(parent, file_stem \o extension),
     season |-> None, episode |-> None, extracted_number |-> number,
     cleaned_title |-> <<>>, extension |-> extension]

\* the RenameOperation the builder creates, with the uuid4 it draws
BuiltOperation(meta, cleaned_meta, target_name, uuid) ==
    [original_path |-> meta.file_path, metadata |-> cleaned_meta,
     target_name |-> target_name,
     target_path |-> Join(meta.file_path.parent, target_name),
     staging_id |-> uuid, staging_path |-> NoPath,
     status |-> "PENDING", error_message |-> ""]

\* a target name made of the drawn identifier
target_name_from_uuid(t, meta, uuid) ==
    [raised |-> "none", value |-> <<DigitChars[uuid[1] + 1]>>]

\* the body of the loop of build_transaction up to the target name with its
\* extension; raised when the formatter raises
target_name_with_ext(t, meta, uuid) ==
    LET cleaned_meta == [meta EXCEPT !.cleaned_title = sanitize(stem(meta.file_path))]
        formatted == format_safe(t, cleaned_meta)
    IN  IF formatted.raised # "none" THEN formatted
        ELSE [raised |-> "none", value |-> formatted.value \o meta.extension]

\* TransactionBuilder.build_transaction from entry i on, given the uuid4
\* values drawn for the operations; the transaction id is the last of them
RECURSIVE BuildFrom(_, _, _, _, _)
BuildFrom(ml, t, uuids, i, operations) ==
    IF i > Len(ml)
    THEN [raised |-> "none",
          value |-> [operations |-> operations, transaction_id |-> uuids[Len(ml) + 1]]]
    ELSE LET target == target_name_with_ext(t, ml[i], uuids[i])
             cleaned_meta ==
                 [ml[i] EXCEPT !.cleaned_title = sanitize(stem(ml[i].file_path))]
         IN  IF target.raised # "none"
             THEN [raised |-> target.raised, value |-> <<>>]
             ELSE BuildFrom(ml, t, uuids, i + 1,
                            Append(operations,
                                   BuiltOperation(ml[i], cleaned_meta, target.value,
                                                  uuids[i])))

build_transaction(ml, t, uuids) == BuildFrom(ml, t, uuids, 1, <<>>)

\* the uuid4 values one call of the builder draws for n operations and the
\* transaction: distinct within the call; two calls may draw any values
UUIDs(n) == {[i \in 1..(n + 1) |-> <<u, i>>] : u \in 1..2}

\* -------------------------- controller.py: ApplicationController.build_transaction
\* AppConfig.format_string
ConfigFormatString == DefaultTemplate

\* 'format_string or self.config.format_string': the empty template is falsy
FormatStr(t) == IF t = EmptyTemplate THEN ConfigFormatString ELSE t

\* a gate that only looks at the metadata
GateRaises_metadata_only(ml, t) == ml = <<>>

\* the two tests of the controller that raise ValueError before the builder
\* is made
GateRaises(ml, t) ==
    \/ ml = <<>>
    \/ ~validate_format_string(FormatStr(t)).is_valid

\* the files the scan found: stems and numbers, all in directory d with
\* extension .m
BuildStems == {<<"e", "_", "1">>, <<":">>, <<"E", ":", "2">>}
BuildNumbers == {None, 12}
BuildEntries ==
    {ParsedMetadata(<<"d">>, s, <<".", "m">>, k) : s \in BuildStems, k \in BuildNumbers}

\* a transaction the controller built from an earlier scan
PreviousTransaction ==
    build_transaction(<<ParsedMetadata(<<"d">>, <<"f">>, <<".", "m">>, 1)>>,
                      DefaultTemplate, <<<<0, 1>>, <<0, 2>>>>).value

\* the name whose file comes and goes while the builder is used
Watched == "A"

\* TransactionBuilder(format_string, zero_padding).build_transaction called
\* with the scanned metadata
BuilderCall ==
    /\ Len(out) < MaxCalls
    /\ \E uuids \in UUIDs(Len(metadata_list)) :
         LET built == build_transaction(metadata_list, format_string, uuids)
         IN  out' = Append(out, [fn |-> "TransactionBuilder.build_transaction",
                                 raised |-> built.raised, value |-> built.value,
                                 dir |-> fs, builder_invoked |-> TRUE,
                                 before |-> current_transaction,
                                 after |-> current_transaction])
    /\ called' = "build_transaction"
    /\ builder_calls' = Append(builder_calls, [by |-> "caller", template |-> format_string])
    /\ UNCHANGED <<engine_vars, metadata_list, format_string, current_transaction,
                   threads, start_result>>

\* ApplicationController.build_transaction(format_string)
ControllerBuild ==
    /\ Len(out) < MaxCalls
    /\ \E uuids \in UUIDs(Len(metadata_list)) :
         LET format_str == FormatStr(format_string)
             gate == GateRaises(metadata_list, format_string)
             built == IF gate THEN [raised |-> "ValueError", value |-> <<>>]
                      ELSE build_transaction(metadata_list, format_str, uuids)
             after == IF built.raised = "none" THEN <<built.value>>
                      ELSE current_transaction
         IN  /\ out' = Append(out, [fn |-> "ApplicationController.build_transaction",
                                    raised |-> built.raised, value |-> built.value,
                                    dir |-> fs, builder_invoked |-> ~gate,
                                    before |-> current_transaction, after |-> after])
             /\ current_transaction' = after
             /\ builder_calls' =
                  IF gate THEN builder_calls
                  ELSE Append(builder_calls, [by |-> "controller", template |-> format_str])
    /\ called' = "build_transaction"
    /\ UNCHANGED <<engine_vars, metadata_list, format_string, threads, start_result>>

\* another program creates or removes a file of the directory
DirectoryChanges ==
    /\ fs' = [fs EXCEPT ![Watched] =
                IF fs[Watched] = NoFile
                THEN [kind |-> "file", content |-> Watched, name |-> Watched]
                ELSE NoFile]
    /\ UNCHANGED <<transaction, dir_writable, platform, config_vars, current_phase, pc, idx,
                   result, worker_vars, hist_vars, called, out, input_vars>>

InitBuild ==
    /\ NoExecution
    /\ metadata_list \in ListsOver(BuildEntries, MaxBuild)
    /\ format_string \in Templates
    /\ current_transaction \in {<<>>, <<PreviousTransaction>>}
    /\ builder_calls = <<>>
    /\ NoThreads
    /\ PlainRun
    /\ called = "none"
    /\ out = <<>>

NextBuild ==
    \/ BuilderCall
    \/ ControllerBuild
    \/ DirectoryChanges

SpecBuild == InitBuild /\ [][NextBuild]_vars

\* ------------------------------------ threading_worker.py: BackgroundWorker
\* The worker by itself: any caller may call start and cancel at any time.
\* A thread is running while its target executes, wrapping while
\* worker_wrapper finishes after the target, and finished once it has exited.

\* the test of BackgroundWorker.start that raises RuntimeError
start_refuses == is_running

\* BackgroundWorker.start(target)
WorkerStart ==
    /\ IF start_refuses
       THEN /\ start_result' = "RuntimeError"
            /\ UNCHANGED <<threads, status, cancel_flag, thread_alive>>
       ELSE /\ Len(threads) < MaxThreads
            /\ start_result' = "started"
            /\ status' = "running"
            /\ cancel_flag' = FALSE
            /\ threads' = Append(threads, "running")
            /\ thread_alive' = TRUE
    /\ UNCHANGED <<transaction, fs, dir_writable, platform, config_vars, current_phase, pc, idx,
                   result, cancel_btn, hist_vars, metadata_list, called, out,
                   format_string, current_transaction, builder_calls>>

\* BackgroundWorker.cancel()
WorkerCancel ==
    /\ cancel_flag' = TRUE
    /\ status' = "cancelled"
    /\ UNCHANGED <<transaction, fs, dir_writable, platform, config_vars, current_phase, pc, idx,
                   result, thread_alive, cancel_btn, hist_vars, input_vars, called, out>>

\* worker_wrapper of thread i: the target returned or raised, and the wrapper
\* sets the status
TargetEnds ==
    \E i \in 1..Len(threads) :
        /\ threads[i] = "running"
        /\ threads' = [threads EXCEPT ![i] = "wrapping"]
        /\ status' \in {"completed", "failed"}
        /\ UNCHANGED <<transaction, fs, dir_writable, platform, config_vars, current_phase, pc,
                       idx, result, cancel_flag, thread_alive, cancel_btn, hist_vars,
                       metadata_list, called, out, format_string, current_transaction,
                       builder_calls, start_result>>

\* worker_wrapper of thread i has put its result and the thread exits
ThreadExits ==
    \E i \in 1..Len(threads) :
        /\ threads[i] = "wrapping"
        /\ threads' = [threads EXCEPT ![i] = "finished"]
        /\ thread_alive' = IF i = Len(threads) THEN FALSE ELSE thread_alive
        /\ UNCHANGED <<transaction, fs, dir_writable, platform, config_vars, current_phase, pc,
                       idx, result, status, cancel_flag, cancel_btn, hist_vars,
                       metadata_list, called, out, format_string, current_transaction,
                       builder_calls, start_result>>

InitWorker ==
    /\ NoExecution
    /\ metadata_list = <<>>
    /\ called = "none"
    /\ out = <<>>
    /\ NoBuild
    /\ NoThreads
    /\ PlainRun

NextWorker ==
    \/ WorkerStart
    \/ WorkerCancel
    \/ TargetEnds
    \/ ThreadExits

SpecWorker == InitWorker /\ [][NextWorker]_vars

\* ------------------------------------------------------------- properties
\* execute_transaction has returned or raised
Returned == result # "none"

\* the file that started at operation i's original path is at its target path
AtTarget(i) ==
    /\ fs[transaction[i].target_path].kind = "file"
    /\ fs[transaction[i].target_path].content = transaction[i].original_path

\* p held an entry before execution and is the source of no operation
Foreign(p) ==
    /\ Exists(fs0, p)
    /\ \A i \in 1..Len(transaction) : transaction[i].original_path # p

\* the original paths of the batch
Sources == {transaction[i].original_path : i \in 1..Len(transaction)}

\* some operation violates a preflight check on the initial filesystem:
\* source missing, not a regular file or unreadable, or directory unwritable
SomePreflightViolation ==
    \/ ~dir_writable /\ Len(transaction) > 0
    \/ \E i \in 1..Len(transaction) : fs0[transaction[i].original_path].kind # "file"

\* no operation's staging file is on disk
NoStagingFile ==
    \A i \in 1..Len(transaction) : ~Exists(fs, get_staging_filename(transaction[i]))

\* C1: atomicity.  With at most one failing rename call, when
\* execute_transaction returns either every batch file is at its target path
\* or the filesystem is exactly the initial one.
C1_Atomicity ==
    (Returned /\ rename_errors <= 1) =>
        \/ \A i \in 1..Len(transaction) : AtTarget(i)
        \/ fs = fs0

\* C2: success case.  When every preflight check passes and no rename call
\* fails, execute_transaction returns True, every operation is COMPLETED, each
\* file's content is at its target path and no staging file remains.
C2_Success ==
    (Returned /\ ~SomePreflightViolation /\ rename_errors = 0) =>
        /\ result = "true"
        /\ \A i \in 1..Len(transaction) :
              /\ transaction[i].status = "COMPLETED"
              /\ AtTarget(i)
        /\ NoStagingFile

C2_Witness ==
    /\ result = "true"
    /\ Len(transaction) >= 2
    /\ \A i \in 1..Len(transaction) : AtTarget(i) /\ transaction[i].status = "COMPLETED"

\* C3: rollback after a phase-two failure.  When one rename fails in phase
\* two, after execute_transaction returns no operation is COMPLETED and no
\* file of the batch is at a path other than the one it started at.
C3_RollbackPhaseTwo ==
    (Returned /\ err_phase = "phase_two" /\ rename_errors = 1) =>
        /\ \A i \in 1..Len(transaction) : transaction[i].status # "COMPLETED"
        /\ \A p \in Names :
              (Exists(fs, p) /\ fs[p].content \in Sources) => fs[p].content = p

\* C4: rollback after a phase-one failure.  When the rename of operation k is
\* the one rename that fails, in phase one, execute_transaction returns False,
\* every batch file is at its original path with its original content, the
\* operations before k are ROLLED_BACK and no new target file exists.
C4_RollbackPhaseOne ==
    (Returned /\ err_phase = "phase_one" /\ rename_errors = 1) =>
        /\ result = "false"
        /\ \A i \in 1..Len(transaction) :
              /\ Exists(fs, transaction[i].original_path)
              /\ fs[transaction[i].original_path] = fs0[transaction[i].original_path]
              /\ i < err_idx => transaction[i].status = "ROLLED_BACK"
              /\ Exists(fs, transaction[i].target_path)
                    => Exists(fs0, transaction[i].target_path)

C4_Witness ==
    /\ Returned
    /\ err_phase = "phase_one"
    /\ rename_errors = 1
    /\ err_idx = 2
    /\ transaction[1].status = "ROLLED_BACK"

\* C5: final statuses after a failed execution.  When a single rename call
\* fails in phase one or phase two, after execute_transaction returns every
\* operation is ROLLED_BACK or PENDING.
C5_FinalStatuses ==
    (Returned /\ err_phase \in {"phase_one", "phase_two"} /\ rename_errors = 1) =>
        \A i \in 1..Len(transaction) :
            transaction[i].status \in {"ROLLED_BACK", "PENDING"}

C7_PreflightAbort ==
    SomePreflightViolation =>
        /\ fs = fs0
        /\ \A i \in 1..Len(transaction) : transaction[i].status = "PENDING"
        /\ rename_errors = 0
        /\ Returned => result = "false"

C7_Witness ==
    /\ result = "false"
    /\ Len(transaction) = 2
    /\ fs0[transaction[1].original_path].kind = "file"
    /\ fs0[transaction[2].original_path].kind # "file"
    /\ transaction[1].staging_path # NoPath

\* C8: rollback-failure escalation.  If a rename fails during rollback,
\* execute_transaction raises TransactionError instead of returning False.
C8_RollbackEscalation ==
    (Returned /\ rollback_errors >= 1) => result = "raised"

\* C9: cooperative cancellation.  If cancel() is called while phase one or
\* phase two still has an operation to process, the transaction does not
\* commit and every batch file is back at its original path.
C9_Cancellation ==
    (/\ Returned
     /\ cancel_phase \in {"phase_one", "phase_two"}
     /\ cancel_idx <= Len(transaction)) =>
        /\ result # "true"
        /\ \A i \in 1..Len(transaction) :
              fs[transaction[i].original_path] = fs0[transaction[i].original_path]

\* C10: no overwrite of foreign files.  An entry that exists before execution
\* and is the source of no operation is never changed; an operation whose
\* target it occupies is never COMPLETED, the finalize loop never passes it,
\* and its finalize rename fails with the target-exists error.
C10_NoOverwrite ==
    /\ \A p \in Names : Foreign(p) => fs[p] = fs0[p]
    /\ \A i \in 1..Len(transaction) :
          Foreign(transaction[i].target_path) =>
             /\ transaction[i].status # "COMPLETED"
             /\ ~(pc = "phase_two" /\ idx > i)
             /\ (err_phase = "phase_two" /\ err_idx = i) =>
                   /\ transaction[i].status = "FAILED"
                   /\ transaction[i].error_message = "FileExistsError"

C10_Witness ==
    /\ Returned
    /\ \E i \in 1..Len(transaction) :
          /\ Foreign(transaction[i].target_path)
          /\ err_phase = "phase_two" /\ err_idx = i
          /\ transaction[i].error_message = "FileExistsError"
          /\ fs[transaction[i].target_path] = fs0[transaction[i].target_path]

\* no two operations have targets naming the same directory slot
TargetsDistinct ==
    \A i, j \in 1..Len(transaction) :
        i # j => Key(transaction[i].target_path) # Key(transaction[j].target_path)

\* every target is absent from the initial directory or is the source of an
\* operation of the batch
TargetsFreeOrOwn ==
    \A i \in 1..Len(transaction) :
        \/ ~Exists(fs0, transaction[i].target_path)
        \/ \E j \in 1..Len(transaction) :
              Key(transaction[j].original_path) = Key(transaction[i].target_path)

\* every source is a readable regular file in a writable directory
SourcesUsable ==
    /\ dir_writable \/ Len(transaction) = 0
    /\ \A i \in 1..Len(transaction) :
          fs0[Key(transaction[i].original_path)].kind = "file"

\* the environment made no rename of phase one or phase two fail
NoExternalFailure ==
    \A i \in 1..Len(transaction) : transaction[i].error_message # "OSError"

\* C11: staging eliminates intra-batch collisions.  A transaction with
\* distinct usable sources and distinct targets, each target absent or a
\* source of the batch (swap, shift chain), executed without external
\* failure, returns True with each file's content at its own target path,
\* whatever the order of its operations.
C11_StagingEliminatesCollisions ==
    (/\ Returned
     /\ TargetsDistinct /\ TargetsFreeOrOwn
     /\ SourcesUsable /\ NoExternalFailure) =>
        /\ result = "true"
        /\ \A i \in 1..Len(transaction) : AtTarget(i)

C11_Witness ==
    /\ result = "true"
    /\ Len(transaction) = 2
    /\ transaction[1].target_path = transaction[2].original_path
    /\ transaction[2].target_path = transaction[1].original_path
    /\ AtTarget(1) /\ AtTarget(2)

\* C12: case-only rename.  On every platform, in a transaction that is
\* otherwise free of collisions and external failures, an operation whose
\* target differs from its source only in letter case ends COMPLETED, the
\* transaction returns True, and the file is in the directory under the
\* target name.
C12_CaseOnlyRename ==
    (/\ Returned
     /\ TargetsDistinct /\ TargetsFreeOrOwn
     /\ SourcesUsable /\ NoExternalFailure) =>
        \A i \in 1..Len(transaction) :
            is_case_only_change(transaction[i]) =>
               /\ result = "true"
               /\ transaction[i].status = "COMPLETED"
               /\ fs[Key(transaction[i].target_path)].kind = "file"
               /\ fs[Key(transaction[i].target_path)].name = transaction[i].target_path
               /\ fs[Key(transaction[i].target_path)].content =
                     fs0[Key(transaction[i].original_path)].content

C12_Witness ==
    /\ platform = "windows"
    /\ result = "true"
    /\ \E i \in 1..Len(transaction) :
          /\ is_case_only_change(transaction[i])
          /\ transaction[i].status = "COMPLETED"
          /\ fs0[Key(transaction[i].original_path)].name = transaction[i].original_path
          /\ fs[Key(transaction[i].target_path)].name = transaction[i].target_path

\* the operations whose target name lower-cases to k
WithTargetLower(k) ==
    {i \in 1..Len(transaction) : Lower(transaction[i].target_path) = k}

\* the elements of a sequence
Range(q) == {q[m] : m \in 1..Len(q)}

\* C13: detect_duplicate_targets reports a group for a lower-cased target name
\* exactly when at least two operations have that name up to case, and the
\* group holds exactly those operations, each once.
C13_DuplicateTargets ==
    called = "detect_duplicate_targets" =>
        /\ \A i \in 1..Len(transaction) :
              LET k == Lower(transaction[i].target_path)
              IN  (k \in DOMAIN out) <=> (Cardinality(WithTargetLower(k)) >= 2)
        /\ \A k \in DOMAIN out :
              /\ Range(out[k]) = WithTargetLower(k)
              /\ Len(out[k]) = Cardinality(WithTargetLower(k))
              /\ Len(out[k]) >= 2

C13_Witness ==
    /\ called = "detect_duplicate_targets"
    /\ \E k \in DOMAIN out :
          \E m, n \in 1..Len(out[k]) :
             /\ transaction[out[k][m]].target_path = "A"
             /\ transaction[out[k][n]].target_path = "a"
    /\ \E i \in 1..Len(transaction) :
          Lower(transaction[i].target_path) \notin DOMAIN out

\* C14: detect_target_collisions reports an operation, paired with its target
\* path, exactly when its target exists on disk and is not the file at the
\* source path of an operation of the batch.
C14_TargetCollisions ==
    called = "detect_target_collisions" =>
        /\ \A i \in 1..Len(transaction) :
              (\E m \in 1..Len(out) : out[m][1] = i) <=>
                  /\ Exists(fs, transaction[i].target_path)
                  /\ \A j \in 1..Len(transaction) :
                        Key(transaction[j].original_path)
                           # Key(transaction[i].target_path)
        /\ \A m \in 1..Len(out) : out[m][2] = transaction[out[m][1]].target_path

\* the operation that renames the file at operation i's target, or 0
NextOp(i) ==
    IF \E j \in 1..Len(transaction) :
          SamePath(transaction[j].original_path, transaction[i].target_path)
    THEN CHOOSE j \in 1..Len(transaction) :
          SamePath(transaction[j].original_path, transaction[i].target_path)
    ELSE 0

\* the operation reached from i by k renames, or 0
RECURSIVE NextOpTimes(_, _)
NextOpTimes(i, k) ==
    IF k = 0 \/ i = 0 THEN i ELSE NextOpTimes(NextOp(i), k - 1)

\* operation i is an edge of a cycle of length at least 2
OnCycle(i) ==
    /\ NextOp(i) # i
    /\ \E k \in 2..Len(transaction) : NextOpTimes(i, k) = i

\* C15: detect_circular_renames reports every cycle of length >= 2 exactly
\* once, as its operations in chain order, and reports nothing else, for every
\* order of the operations and also when a chain leads into the cycle.
C15_CircularRenames ==
    called = "detect_circular_renames" =>
        /\ \A c \in 1..Len(out) :
              /\ Len(out[c]) >= 2
              /\ \A m \in 1..Len(out[c]) :
                    NextOp(out[c][m]) = out[c][(m % Len(out[c])) + 1]
        /\ \A i \in 1..Len(transaction) :
              OnCycle(i) =>
                 Cardinality({c \in 1..Len(out) : i \in Range(out[c])}) = 1

\* the numbers carried by the entries of the metadata list
NumbersOf(ml) == {ml[i].extracted_number : i \in 1..Len(ml)} \ {None}

\* C16: detect_number_gaps returns, in ascending order, exactly the integers
\* between the smallest and the largest extracted number that no entry
\* carries; entries without a number are ignored and the result is empty
\* when no entry has a number
C16_NumberGaps ==
    called = "detect_number_gaps" =>
        LET N == NumbersOf(metadata_list)
            missing == {i \in 0..(MaxNumber + 1) :
                          /\ i \notin N
                          /\ \E lo \in N : lo <= i
                          /\ \E hi \in N : i <= hi}
        IN  /\ {out[i] : i \in 1..Len(out)} = missing
            /\ Len(out) = Cardinality(missing)
            /\ \A i, j \in 1..Len(out) : i < j => out[i] < out[j]

\* numbers {1, 2, 4, 5}, with an entry without a number among them, give [3]
C16_Witness ==
    /\ called = "detect_number_gaps"
    /\ NumbersOf(metadata_list) = {1, 2, 4, 5}
    /\ out = <<3>>

\* C17: a number is a key of the result of detect_duplicate_numbers exactly
\* when at least two entries carry it, its group is all the entries carrying
\* it in input order, and entries without a number are in no group
C17_DuplicateNumbers ==
    called = "detect_duplicate_numbers" =>
        /\ DOMAIN out =
             {n \in NumbersOf(metadata_list) :
                \E i, j \in 1..Len(metadata_list) :
                    /\ i # j
                    /\ metadata_list[i].extracted_number = n
                    /\ metadata_list[j].extracted_number = n}
        /\ \A n \in DOMAIN out :
             out[n] = SelectSeq(metadata_list, LAMBDA m : m.extracted_number = n)
        /\ None \notin DOMAIN out

\* two entries of different names carry the same number, next to an entry
\* without a number and an entry with a number of its own
C17_Witness ==
    /\ called = "detect_duplicate_numbers"
    /\ \E n \in DOMAIN out :
         /\ Len(out[n]) = 2
         /\ out[n][1].original_name # out[n][2].original_name
    /\ \E i \in 1..Len(metadata_list) : metadata_list[i].extracted_number = None
    /\ \E i \in 1..Len(metadata_list) :
         /\ metadata_list[i].extracted_number # None
         /\ metadata_list[i].extracted_number \notin DOMAIN out

\* the number of positions of a list that hold entry m
Count(ml, m) == Cardinality({i \in 1..Len(ml) : ml[i] = m})

\* the output holds every entry as often as the input does
IsPermutation(a, b) ==
    /\ Len(a) = Len(b)
    /\ \A i \in 1..Len(a) : Count(a, a[i]) = Count(b, a[i])

\* C18: the output of sort_metadata is a permutation of the input in which
\* the entries with an extracted number are in non-decreasing numeric order
\* and every entry without a number comes after every entry with one
C18_SortOrdering ==
    called = "sort_metadata" =>
        /\ IsPermutation(out, metadata_list)
        /\ \A i, j \in 1..Len(out) :
             i < j =>
               /\ (out[i].extracted_number # None /\ out[j].extracted_number # None
                     => out[i].extracted_number <= out[j].extracted_number)
               /\ ~(out[i].extracted_number = None /\ out[j].extracted_number # None)

\* the lists that hold the same entries as ml, in every order
Reorderings(ml) ==
    {[i \in 1..Len(ml) |-> ml[p[i]]] :
        p \in {q \in [1..Len(ml) -> 1..Len(ml)] :
                 \A i, j \in 1..Len(ml) : i # j => q[i] # q[j]}}

\* the entries of the list are files of different names
DistinctNames(ml) ==
    \A i, j \in 1..Len(ml) : i # j => ml[i].original_name # ml[j].original_name

\* C19: entries of different original names have different sort keys, and
\* sort_metadata returns the same sequence for every order of the same entries
C19_DeterministicTotalOrder ==
    (called = "sort_metadata" /\ DistinctNames(metadata_list)) =>
        /\ \A i, j \in 1..Len(metadata_list) :
             i # j => sort_key(metadata_list[i]) # sort_key(metadata_list[j])
        /\ \A ml \in Reorderings(metadata_list) : sort_metadata(ml) = out

\* the maximal run of digits a name starts with
RECURSIVE LeadingDigits(_)
LeadingDigits(a) ==
    IF Len(a) > 0 /\ a[1] \in Digits THEN <<a[1]>> \o LeadingDigits(Tail(a))
    ELSE <<>>

\* the natural order of two names, read from their first characters on:
\* -1 when a comes first, 1 when b comes first, 0 when neither does.  Two
\* maximal runs of digits compare as integers, two other characters compare
\* as text without regard to case, a name that has ended comes before one
\* that goes on, and a run of digits comes before text
RECURSIVE NaturalCmp(_, _)
NaturalCmp(a, b) ==
    IF Len(a) = 0 /\ Len(b) = 0 THEN 0
    ELSE IF Len(a) = 0 THEN -1
    ELSE IF Len(b) = 0 THEN 1
    ELSE IF a[1] \in Digits /\ b[1] \in Digits
    THEN LET ra == LeadingDigits(a)
             rb == LeadingDigits(b)
         IN  IF int(ra) < int(rb) THEN -1
             ELSE IF int(ra) > int(rb) THEN 1
             ELSE NaturalCmp(SubSeq(a, Len(ra) + 1, Len(a)),
                             SubSeq(b, Len(rb) + 1, Len(b)))
    ELSE IF a[1] \in Digits THEN -1
    ELSE IF b[1] \in Digits THEN 1
    ELSE IF Ord(LowerChar(a[1])) < Ord(LowerChar(b[1])) THEN -1
    ELSE IF Ord(LowerChar(a[1])) > Ord(LowerChar(b[1])) THEN 1
    ELSE NaturalCmp(Tail(a), Tail(b))

\* C20: among the entries of the same extracted number, and among those
\* without a number, the output of sort_metadata is in the natural order of
\* the original names: no entry comes after one that it precedes in that order
C20_NaturalTieBreak ==
    called = "sort_metadata" =>
        \A i, j \in 1..Len(out) :
            (i < j /\ out[i].extracted_number = out[j].extracted_number)
              => NaturalCmp(out[i].original_name, out[j].original_name) <= 0

\* names e2, e10, e1 with the same number come out as e1, e2, e10
C20_Witness ==
    /\ called = "sort_metadata"
    /\ [i \in 1..Len(metadata_list) |-> metadata_list[i].original_name]
         = <<<<"e", "2">>, <<"e", "1", "0">>, <<"e", "1">>>>
    /\ [i \in 1..Len(out) |-> out[i].original_name]
         = <<<<"e", "1">>, <<"e", "2">>, <<"e", "1", "0">>>>
    /\ \A i \in 1..Len(out) : out[i].extracted_number = out[1].extracted_number

\* the calls of the builder made directly, by their position in out
BuilderCalls == {c \in 1..Len(out) : out[c].fn = "TransactionBuilder.build_transaction"}

\* two results of the builder agree: both raised, or both returned operations
\* of the same source paths, target names and target paths, position by position
SameBuild(a, b) ==
    /\ a.raised = b.raised
    /\ a.raised = "none" =>
         /\ Len(a.value.operations) = Len(b.value.operations)
         /\ \A k \in 1..Len(a.value.operations) :
              /\ a.value.operations[k].original_path = b.value.operations[k].original_path
              /\ a.value.operations[k].target_name = b.value.operations[k].target_name
              /\ a.value.operations[k].target_path = b.value.operations[k].target_path

ControllerCalls ==
    {c \in 1..Len(out) : out[c].fn = "ApplicationController.build_transaction"}

\* C22: the controller never invokes the builder with a template that fails
\* validate_format_string; with such a template, and with no scanned
\* metadata, its build_transaction raises ValueError, invokes no builder and
\* leaves current_transaction as it was
C22_ValidationGate ==
    called = "build_transaction" =>
        /\ \A i \in 1..Len(builder_calls) :
             builder_calls[i].by = "controller"
               => validate_format_string(builder_calls[i].template).is_valid
        /\ \A c \in ControllerCalls :
             (\/ metadata_list = <<>>
              \/ ~validate_format_string(FormatStr(format_string)).is_valid)
               => /\ out[c].raised = "ValueError"
                  /\ ~out[c].builder_invoked
                  /\ out[c].after = out[c].before

\* with scanned metadata and an earlier transaction, the controller was
\* given a template that fails validation: it raised and kept the transaction
C22_Witness ==
    /\ called = "build_transaction"
    /\ metadata_list # <<>>
    /\ ~validate_format_string(FormatStr(format_string)).is_valid
    /\ \E c \in ControllerCalls :
         /\ out[c].raised = "ValueError"
         /\ out[c].before = <<PreviousTransaction>>
         /\ current_transaction = <<PreviousTransaction>>

\* C23: at most one target function executes on the worker at any moment, and
\* start raises RuntimeError whenever a thread it created earlier has not
\* finished, also after cancel() was called
C23_OneTaskAtATime ==
    /\ [](Cardinality({i \in 1..Len(threads) : threads[i] = "running"}) <= 1)
    /\ [][(WorkerStart /\ \E i \in 1..Len(threads) : threads[i] # "finished")
            => start_result' = "RuntimeError"]_vars

\* the phases of an execution, in their order
PhaseOrder == <<"preflight", "phase_one", "checkpoint", "phase_two", "commit">>

\* sequence a is an initial part of sequence b
IsPrefix(a, b) == Len(a) <= Len(b) /\ \A i \in 1..Len(a) : a[i] = b[i]

\* a sequence without its last element
Front(q) == SubSeq(q, 1, Len(q) - 1)

\* the values current_phase has taken inside the execution: without the reset
\* to PREFLIGHT that the finally clause makes when execute_transaction leaves
PhasesTaken ==
    IF pc \in {"returned", "done", "reported"} THEN Front(phase_trace)
    ELSE phase_trace

\* C24: current_phase takes the values PREFLIGHT, PHASE_ONE, CHECKPOINT,
\* PHASE_TWO, COMMIT in that order, none skipped or repeated, possibly cut
\* short by ROLLBACK; and a staging -> target rename happens only when every
\* operation has been staged and verified: the operations not yet finalized
\* are STAGED with their staging file present
C24_PhaseOrdering ==
    /\ [](/\ phase_trace # <<>> => current_phase = Last(phase_trace)
          /\ \/ IsPrefix(PhasesTaken, PhaseOrder)
             \/ /\ PhasesTaken # <<>>
                /\ Last(PhasesTaken) = "rollback"
                /\ IsPrefix(Front(PhasesTaken), PhaseOrder))
    /\ [][PhaseTwoStep =>
            /\ IsPrefix(<<"preflight", "phase_one", "checkpoint">>, phase_trace)
            /\ \A i \in 1..Len(transaction) :
                 IF i < idx THEN transaction[i].status = "COMPLETED"
                 ELSE /\ transaction[i].status = "STAGED"
                      /\ fs[transaction[i].staging_path].kind = "file"]_vars

\* an execution of two operations went through all five phases and returned
C24_Witness ==
    /\ result = "true"
    /\ Len(transaction) = 2
    /\ phase_trace = PhaseOrder \o <<"preflight">>

\* C25: both phases take the operations in list order, and once the rename of
\* operation k has failed in phase one no rename of phase one follows, every
\* operation after k stays PENDING and the file at its original path is
\* never touched
C25_FirstFailureAbort ==
    /\ [](/\ pc = "phase_one" =>
               \A i \in 1..Len(transaction) :
                   transaction[i].status = IF i < idx THEN "STAGED" ELSE "PENDING"
          /\ pc = "phase_two" =>
               \A i \in 1..Len(transaction) :
                   transaction[i].status = IF i < idx THEN "COMPLETED" ELSE "STAGED"
          /\ err_phase = "phase_one" =>
               \A j \in 1..Len(transaction) :
                   j > err_idx =>
                     /\ transaction[j].status = "PENDING"
                     /\ fs[Key(transaction[j].original_path)]
                          = fs0[Key(transaction[j].original_path)])
    /\ [][(PhaseOneStep \/ PhaseTwoStep) => err_phase = "none"]_vars

\* the rename of the first of two operations failed in phase one and the
\* execution has returned: the second is PENDING, its file where it was
C25_Witness ==
    /\ err_phase = "phase_one"
    /\ err_idx = 1
    /\ Len(transaction) = 2
    /\ Returned
    /\ transaction[2].status = "PENDING"
    /\ fs[Key(transaction[2].original_path)].kind = "file"


\* the content operation i's file had before the execution is on disk at
\* the operation's original path, its staging path or its target path
ContentKept(i) ==
    \E p \in {transaction[i].original_path,
              get_staging_filename(transaction[i]),
              transaction[i].target_path} :
        /\ Exists(fs, p)
        /\ fs[Key(p)].content = fs0[Key(transaction[i].original_path)].content

\* C26: no file is ever lost.  In every state during and after
\* execute_transaction the content of each file of the batch is at its
\* original, staging or target path.
C26_NoFileLost ==
    \A i \in 1..Len(transaction) :
        Exists(fs0, transaction[i].original_path) => ContentKept(i)


\* the operations whose file the rollback has not brought back: still
\* STAGED or COMPLETED
Unrestored ==
    {i \in 1..Len(transaction) : transaction[i].status \in {"STAGED", "COMPLETED"}}

\* C27: best-effort rollback.  When a restore fails during the rollback,
\* the restore of every other STAGED operation, and after a phase-two
\* failure of every other COMPLETED operation, is still attempted: after
\* the rollback each operation that is still STAGED or COMPLETED is one
\* whose restore was attempted and failed, so there are no more of them
\* than failed restores.
C27_BestEffortRollback ==
    (/\ Returned
     /\ err_phase \in {"phase_one", "phase_two"}
     /\ rollback_errors >= 1)
        => Cardinality(Unrestored) <= rollback_errors


\* the content operation i's file had before the execution is on disk at p
FileAt(i, p) ==
    /\ Exists(fs, p)
    /\ fs[Key(p)].content = fs0[Key(transaction[i].original_path)].content

\* C28: status reflects the filesystem.  In every state a COMPLETED
\* operation has its file at its target path and neither at its staging
\* path nor (when that is another path) at its original path, and an
\* operation becomes COMPLETED only in the step of phase two whose
\* staging -> target rename of that operation succeeded.
C28_CompletedMeansAtTarget ==
    /\ [](\A i \in 1..Len(transaction) :
            transaction[i].status = "COMPLETED" =>
                /\ FileAt(i, transaction[i].target_path)
                /\ ~Exists(fs, transaction[i].staging_path)
                /\ Key(transaction[i].original_path) # Key(transaction[i].target_path)
                      => ~FileAt(i, transaction[i].original_path))
    /\ [][\A i \in 1..Len(transaction) :
            (transaction'[i].status = "COMPLETED" /\ transaction[i].status # "COMPLETED") =>
                /\ pc = "phase_two"
                /\ i = idx
                /\ transaction[i].status = "STAGED"
                /\ Exists(fs, transaction[i].staging_path)
                /\ fs' = Move(fs, transaction[i].staging_path, transaction[i].target_path)]_vars

\* the rollback after a failure of the second rename of phase two is under
\* way: the first operation is COMPLETED and its file is at its target
C28_Witness ==
    /\ pc = "rollback_one"
    /\ err_phase = "phase_two"
    /\ err_idx = 2
    /\ transaction[1].status = "COMPLETED"
    /\ FileAt(1, transaction[1].target_path)
    /\ transaction[1].original_path # transaction[1].target_path


\* the status changes of the state machine of RenameStatus
StatusChanges ==
    {<<"PENDING", "STAGED">>, <<"STAGED", "COMPLETED">>, <<"COMPLETED", "STAGED">>,
     <<"STAGED", "ROLLED_BACK">>, <<"PENDING", "FAILED">>, <<"STAGED", "FAILED">>}

\* the manager is inside one of its two phases or its rollback
ManagerAtWork == pc \in {"phase_one", "phase_two", "rollback", "rollback_one"}

\* C29: status state machine.  Every change of an operation's status during
\* an execution is one of PENDING -> STAGED, STAGED -> COMPLETED,
\* COMPLETED -> STAGED, STAGED -> ROLLED_BACK, PENDING -> FAILED and
\* STAGED -> FAILED, so a FAILED or ROLLED_BACK operation never changes
\* again; the change is made by a step of the manager's phases or rollback,
\* never by the worker or the GUI, and the list of operations keeps its
\* length.
C29_StatusStateMachine ==
    [][/\ Len(transaction') = Len(transaction)
       /\ \A i \in 1..Len(transaction) :
            transaction'[i].status # transaction[i].status =>
                /\ <<transaction[i].status, transaction'[i].status>> \in StatusChanges
                /\ ManagerAtWork
                /\ UNCHANGED worker_vars]_vars

\* an execution in which statuses went PENDING -> STAGED -> ROLLED_BACK
\* and PENDING -> FAILED has returned
C29_Witness ==
    /\ Returned
    /\ Len(transaction) = 2
    /\ err_phase = "phase_one"
    /\ transaction[1].status = "ROLLED_BACK"
    /\ transaction[2].status = "FAILED"
    /\ transaction[2].error_message # ""


\* C30: failure is recorded on the failing operation.  From the failure of
\* a rename in phase one or phase two on, so before the rollback starts and
\* for the rest of the execution, the operation whose rename failed is
\* FAILED with an error message and no other operation is FAILED, and the
\* execution returns False or raises; without such a failure, a preflight
\* failure included, no operation is FAILED.
C30_FailureRecorded ==
    /\ err_phase \in {"phase_one", "phase_two"} =>
          /\ err_idx \in 1..Len(transaction)
          /\ transaction[err_idx].status = "FAILED"
          /\ transaction[err_idx].error_message # ""
          /\ \A j \in 1..Len(transaction) :
                j # err_idx => transaction[j].status # "FAILED"
          /\ Returned => result \in {"false", "raised"}
    /\ err_phase \notin {"phase_one", "phase_two"} =>
          \A j \in 1..Len(transaction) :
              /\ transaction[j].status # "FAILED"
              /\ transaction[j].error_message = ""

\* the second rename of phase two has failed and the rollback has not
\* started: the second operation is FAILED with its message, the first
\* COMPLETED
C30_Witness ==
    /\ pc = "rollback"
    /\ err_phase = "phase_two"
    /\ err_idx = 2
    /\ transaction[2].status = "FAILED"
    /\ transaction[2].error_message = "OSError"
    /\ transaction[1].status = "COMPLETED"

\* a preflight failure has been reported: no operation is FAILED
C30_PreflightWitness ==
    /\ Returned
    /\ err_phase = "preflight"
    /\ Len(transaction) >= 1
    /\ ~any_failed(transaction)


\* C31: the defensive checks never fail.  Whenever phase one has gone
\* through every operation without an error, every operation is STAGED and
\* its staging file is on disk; whenever phase two has, every operation is
\* COMPLETED; so no execution fails at the checkpoint or at the commit, an
\* execution of an empty transaction included.
C31_DefensiveChecksUnreachable ==
    /\ (pc = "phase_one" /\ idx > Len(transaction)) =>
          \A i \in 1..Len(transaction) :
              /\ transaction[i].status = "STAGED"
              /\ transaction[i].staging_path # NoPath
              /\ fs[Key(transaction[i].staging_path)].kind # "none"
    /\ (pc = "phase_two" /\ idx > Len(transaction)) =>
          \A i \in 1..Len(transaction) : transaction[i].status = "COMPLETED"
    /\ err_phase \notin {"checkpoint", "commit"}
    /\ (Returned /\ Len(transaction) = 0) => result = "true"

\* phase one has staged both operations of a batch and is about to return
C31_Witness ==
    /\ pc = "phase_one"
    /\ Len(transaction) = 2
    /\ idx = 3
    /\ err_phase = "none"

\* the execution of an empty transaction passed both checks
C31_EmptyWitness ==
    /\ Len(transaction) = 0
    /\ result = "true"


\* the reports with a given message, in the order they were made
IsStaging(r) == r.message = "Staging"
IsFinalizing(r) == r.message = "Finalizing"
IsComplete(r) == r.message = "Complete!"
IsRollingBack(r) == r.message = "Rolling back"

\* the operations whose rename of phase one, of phase two, has been attempted
StageAttempted ==
    {i \in 1..Len(transaction) : transaction[i].status # "PENDING"}
FinalAttempted ==
    {i \in 1..Len(transaction) :
        \/ transaction[i].status = "COMPLETED"
        \/ transaction[i].status = "FAILED" /\ err_phase = "phase_two"}

\* the reports of a sequence are numbered 0, 1, 2, ... in order
InOrder(rs) == \A k \in 1..Len(rs) : rs[k].current = k - 1

\* the manager is inside _rollback_transaction
InRollback == pc \in {"rollback", "rollback_one", "rollback_return"}

\* C32: progress report sequence.  In an execution by the manager with a
\* sink that returns, every report has total = n and 0 <= current <= n; the
\* reports of staged files and of finalized files are made once per file in
\* transaction order; the report (n, n) of completion has been made exactly
\* when the execution has returned True and is then the last one; the
\* report of the rollback is made before the rollback renames anything; and
\* a step of the manager with a sink is a step of the manager without one,
\* and conversely, so that filesystem and statuses do not depend on the
\* sink.
C32_ProgressReports ==
    /\ []((progress_callback = "sink" /\ ~dry_run_mode) =>
            /\ \A k \in 1..Len(reports) :
                  /\ reports[k].total = Len(transaction)
                  /\ reports[k].current \in 0..Len(transaction)
            /\ InOrder(SelectSeq(reports, IsStaging))
            /\ Len(SelectSeq(reports, IsStaging)) = Cardinality(StageAttempted)
            /\ InOrder(SelectSeq(reports, IsFinalizing))
            /\ Len(SelectSeq(reports, IsFinalizing)) = Cardinality(FinalAttempted)
            /\ (SelectSeq(reports, IsComplete) # <<>>) <=> (result = "true")
            /\ result = "true" =>
                  Last(reports) = Report(Len(transaction), Len(transaction), "Complete!")
            /\ InRollback => IsRollingBack(Last(reports))
            /\ result = "false" => SelectSeq(reports, IsRollingBack) # <<>>)
    /\ [][(progress_callback \in {"none", "sink"} /\ ~dry_run_mode /\ Preflight) =>
            \A cb \in {"none", "sink"} : PreflightWith(cb)]_vars

\* an execution of two operations with a sink has returned True after its
\* nine reports
C32_Witness ==
    /\ progress_callback = "sink"
    /\ ~dry_run_mode
    /\ Len(transaction) = 2
    /\ result = "true"
    /\ Len(reports) = 9
    /\ Len(SelectSeq(reports, IsStaging)) = 2

\* an execution with a sink is rolling back after a failure in phase two
C32_RollbackWitness ==
    /\ progress_callback = "sink"
    /\ pc = "rollback_one"
    /\ err_phase = "phase_two"
    /\ err_idx = 2
    /\ Len(SelectSeq(reports, IsFinalizing)) = 2


\* the formatter's output for entry m under template t, as the builder
\* calls it: on the entry with the sanitized stem as its title
Formatted(t, m) ==
    format_safe(t, [m EXCEPT !.cleaned_title = sanitize(stem(m.file_path))])

\* C33: shape of a built transaction.  A call of
\* TransactionBuilder.build_transaction raises exactly when the formatter
\* raises on some entry; when it returns, the transaction has one operation
\* per entry of the metadata list, in its order, each PENDING with no
\* staging path, with a target path in the directory of its source path and
\* a target name that is the formatter's output followed by the extension.
C33_BuiltTransactionShape ==
    \A c \in BuilderCalls :
        /\ out[c].raised # "none" <=>
              \E k \in 1..Len(metadata_list) :
                  Formatted(format_string, metadata_list[k]).raised # "none"
        /\ out[c].raised = "none" =>
              /\ Len(out[c].value.operations) = Len(metadata_list)
              /\ \A k \in 1..Len(metadata_list) :
                    LET op == out[c].value.operations[k]
                        m  == metadata_list[k]
                    IN  /\ op.original_path = m.file_path
                        /\ op.status = "PENDING"
                        /\ op.staging_path = NoPath
                        /\ op.target_name =
                              Formatted(format_string, m).value \o m.extension
                        /\ op.target_path.parent = op.original_path.parent


\* C34: dry run.  With config.dry_run_mode set and a callback that does not
\* raise, ApplicationController.execute_transaction returns True; the
\* directory stays as it was, every operation keeps status PENDING and no
\* staging path, the transaction manager is never entered (it assigns no
\* phase, attempts no rename and makes no report of its own) and the logger
\* is never called.
C34_DryRun ==
    (dry_run_mode /\ progress_callback # "raising") =>
        /\ Returned => result = "true"
        /\ pc \in {"idle", "returned", "done", "reported"}
        /\ fs = fs0
        /\ \A i \in 1..Len(transaction) :
              /\ transaction[i].status = "PENDING"
              /\ transaction[i].staging_path = NoPath
              /\ transaction[i].error_message = ""
        /\ phase_trace = <<>>
        /\ rename_errors = 0
        /\ \A k \in 1..Len(reports) : reports[k].message = "Dry run"
        /\ logger_calls = <<>>

\* the dry run of a batch of two existing files has returned True after
\* its three reports
C34_Witness ==
    /\ dry_run_mode
    /\ progress_callback = "sink"
    /\ result = "true"
    /\ Len(transaction) = 2
    /\ Len(reports) = 3
    /\ \A i \in 1..2 : fs[transaction[i].original_path].kind = "file"
    /\ dir_writable


\* C35: re-execution is harmless.  When execute_transaction, called again
\* on a transaction that has committed, has returned, it has returned False
\* and the directory is as the first execution left it.
C35_ReexecutionHarmless ==
    (Executions >= 2 /\ Returned /\ Len(transaction) >= 1) =>
        /\ result = "false"
        /\ fs = fs0


\* the undo script has been built and run to its end
UndoRun == undo.pos > Len(undo.script)

\* C36: undo script round trip.  Once the commands of the undo script of a
\* committed transaction have been run in order, every file of the batch is
\* at its original path with its original content, and no command has
\* overwritten a file.
C36_UndoRoundTrip ==
    UndoRun =>
        /\ ~undo.overwrote
        /\ \A i \in 1..Len(transaction) :
              fs[Key(transaction[i].original_path)]
                 = fs0[Key(transaction[i].original_path)]


\* an entry without its number and its extraction method
OtherFields(m) == [m EXCEPT !.extracted_number = None, !.extraction_method = <<>>]

\* C37: renumber_sequentially returns as many entries as it was given, in
\* the order given, each with the fields of its input entry except the
\* number, which is start plus the position counted from 0, and the
\* extraction method, which gets the suffix _renumbered; the list given is
\* unmodified, and the result has no number gaps and no duplicate numbers.
C37_RenumberSequentially ==
    called = "renumber_sequentially" =>
        LET r == out.renumbered
        IN  /\ Len(r) = Len(out.given)
            /\ metadata_list = out.given
            /\ \A i \in 1..Len(r) :
                  /\ OtherFields(r[i]) = OtherFields(out.given[i])
                  /\ r[i].extracted_number = out.start + i - 1
                  /\ r[i].extraction_method
                        = out.given[i].extraction_method \o RenumberedSuffix
            /\ detect_number_gaps(r) = <<>>
            /\ DOMAIN detect_duplicate_numbers(r) = {}

\* a list of three entries, some without a number and two of them equal,
\* has been renumbered from a start other than the default
C37_Witness ==
    /\ called = "renumber_sequentially"
    /\ Len(out.given) = MaxRenumber
    /\ out.start \notin {1}
    /\ out.given[1] = out.given[2]
    /\ \E i \in 1..Len(out.given) : out.given[i].extracted_number = None
    /\ \E i \in 1..Len(out.given) : out.given[i].extracted_number # None
    /\ detect_duplicate_numbers(out.given) # EmptyDict

====
